---- MODULE Spec2Model ----
(***************************************************************************)
(* Physical-memory subsystem of the hart simulator (src/Memory.hpp): page  *)
(* attribute table, register write masks, typed read/write/poke/fetch,     *)
(* per-hart last-write records and LR/SC reservations.                     *)
(*                                                                         *)
(* Integer values of the program (uint8_t .. uint64_t, write masks) are    *)
(* little-endian byte sequences: a T value is a sequence of sizeof(T)      *)
(* bytes, least significant first, which is what the pointer casts of the  *)
(* source read from and write to the byte buffer on the host.              *)
(***************************************************************************)
EXTENDS Integers, Sequences, FiniteSets, TLC

VARIABLES
  attribs,        \* attribs_: page index -> PageAttribs
  masks,          \* masks_: <<>> or one mask vector (possibly empty) per page
  data,           \* data_: byte offset -> byte
  lastWriteData,  \* lastWriteData_: hart -> LastWriteData
  reservations,   \* reservations_: hart -> Reservation
  call,           \* the operation executed last and its arguments
  ret,            \* what that operation returned
  before,         \* the memory, records and reservations when it was called
  nops,           \* number of access operations executed
  ntoggles,       \* number of protection toggles executed
  pc,             \* per hart: position in its LR/SC instruction sequence
  lrMutex,        \* lrMutex_: the hart holding it, or Free
  observed,       \* per hart: what hasLr returned to its store-conditional
  persisting,     \* history: makeLr calls whose reservation nothing has ended
  invalidated,    \* history: harts that called invalidateLr and no makeLr since
  regionConfigured, \* regionConfigured_: the regions holding a carve-out
  cfg,            \* applyMemoryConfig: its position and what it has called
  thrown,         \* the exception that left the last call, or NoException
  writing,        \* per hart: address and value of the store it is executing
  stored,         \* history: the stores to data_ in order, and what each replaced
  mhartstart,     \* the mhartstart CSR: its value, write mask and poke mask
  started,        \* per hart: Hart::isStarted
  hist            \* history: bits mhartstart ever held, harts ever started

vars == <<attribs, masks, data, lastWriteData, reservations, call, ret,
          before, nops, ntoggles, pc, lrMutex, observed, persisting,
          invalidated, regionConfigured, cfg, thrown, writing, stored,
          mhartstart, started, hist>>

\* The state of the configuration, which the running harts leave alone.
cfgVars == <<regionConfigured, cfg, thrown>>
\* The stores in progress, and the CSR that starts the harts.
raceVars == <<writing, stored>>
csrVars == <<mhartstart, started, hist>>
hartVars == <<raceVars, csrVars>>

(***************************************************************************)
(* Sizes of the modelled memory.                                           *)
(***************************************************************************)
PageShift == 3
NumPages == 2
NumHarts == 2
MaxOps == 1
MaxToggles == 1
RegionPages == 2

PageSize == 2 ^ PageShift
MemSize == NumPages * PageSize
WordsPerPage == PageSize \div 4
Pages == 0 .. (NumPages - 1)
Harts == 0 .. (NumHarts - 1)
Addrs == 0 .. MemSize          \* MemSize itself is the first out-of-range address
Widths == {1, 2, 4, 8}         \* sizeof(T) of the typed accesses
Free == NumHarts
RegionSize == RegionPages * PageSize
regionCount == (MemSize + RegionSize - 1) \div RegionSize
Regions == 0 .. (regionCount - 1)
PagesOf(region) == {p \in Pages : p \div RegionPages = region}

(***************************************************************************)
(* Byte-sequence values.                                                   *)
(***************************************************************************)
RECURSIVE BitAnd(_, _)
BitAnd(a, b) ==
  IF a = 0 \/ b = 0 THEN 0
  ELSE (a % 2) * (b % 2) + 2 * BitAnd(a \div 2, b \div 2)

AndBytes(v, m) == [i \in 1 .. Len(v) |-> BitAnd(v[i], m[i])]
Take(v, w) == [i \in 1 .. w |-> v[i]]
ZeroExtend(v) == [i \in 1 .. 8 |-> IF i <= Len(v) THEN v[i] ELSE 0]
Zeros(w) == [i \in 1 .. w |-> 0]
AllOnes == <<255, 255, 255, 255>>
NoValue == <<>>

\* Values handed to the access operations: 0xCAFEF00DDEADBEEF and 0xFF,
\* truncated to the width of the access.
InputValues == {<<239, 190, 173, 222, 13, 240, 254, 202>>,
                <<255, 0, 0, 0, 0, 0, 0, 0>>}
Values(w) == {Take(v, w) : v \in InputValues}

\* Write masks given to registers: 0x1, 0xf, 0xffffffff, 0.
MaskValues == <<(<<1, 0, 0, 0>>), (<<15, 0, 0, 0>>), AllOnes, (<<0, 0, 0, 0>>)>>

(***************************************************************************)
(* PageAttribs.                                                            *)
(***************************************************************************)
PageAttribs(r, w, x, reg, iccm, dccm) ==
  [read |-> r, write |-> w, exec |-> x, reg |-> reg, iccm |-> iccm, dccm |-> dccm]

NoAccess == PageAttribs(FALSE, FALSE, FALSE, FALSE, FALSE, FALSE)
isMapped(a) == a.read \/ a.write \/ a.exec
isExternal(a) == ~a.dccm /\ ~a.reg

\* Attributes the region configurator gives a page.
ExternalPage == PageAttribs(TRUE, TRUE, TRUE, FALSE, FALSE, FALSE)
DccmPage == PageAttribs(TRUE, TRUE, FALSE, FALSE, FALSE, TRUE)
IccmPage == PageAttribs(TRUE, FALSE, TRUE, FALSE, TRUE, FALSE)
RegisterPage == PageAttribs(TRUE, TRUE, FALSE, TRUE, FALSE, FALSE)
ConfiguredPages == {ExternalPage, DccmPage, IccmPage, RegisterPage}

getPageIx(addr) == addr \div PageSize
getPageStartAddr(addr) == (addr \div PageSize) * PageSize
getAttrib(addr) ==
  LET ix == getPageIx(addr)
  IN IF ix < NumPages THEN attribs[ix] ELSE NoAccess

(***************************************************************************)
(* The byte buffer.                                                        *)
(***************************************************************************)
LoadBytes(d, addr, w) == [i \in 1 .. w |-> d[addr + i - 1]]
\* Faulty variant: bytes beyond the page of addr are dropped.
StoreBytesInPage(d, addr, v) ==
  [a \in DOMAIN d |->
     IF addr <= a /\ a < addr + Len(v) /\ a \div PageSize = addr \div PageSize
     THEN v[a - addr + 1] ELSE d[a]]

StoreBytes(d, addr, v) ==
  [a \in DOMAIN d |->
     IF addr <= a /\ a < addr + Len(v) THEN v[a - addr + 1] ELSE d[a]]

Failed == [ok |-> FALSE, value |-> NoValue]
Returned(v) == [ok |-> TRUE, value |-> v]

(***************************************************************************)
(* Register masks.                                                         *)
(***************************************************************************)
\* masks_.at(pageIx) and pageMasks.at(wordIx) are partial, as in the source:
\* the callers below reach them only with a page of the attribute table.
getMemoryMappedMask(addr) ==
  IF masks = <<>> THEN AllOnes
  ELSE LET pageMasks == masks[getPageIx(addr) + 1]
           wordIx == (addr - getPageStartAddr(addr)) \div 4
       IN IF pageMasks = <<>> THEN AllOnes ELSE pageMasks[wordIx + 1]

doRegisterMasking(addr, value) == AndBytes(value, getMemoryMappedMask(addr))

\* Faulty variant: no word-alignment test.
readRegisterUnaligned(addr) == Returned(LoadBytes(data, addr, 4))

readRegister(addr) ==
  IF addr % 4 # 0 THEN Failed ELSE Returned(LoadBytes(data, addr, 4))

(***************************************************************************)
(* Data reads.                                                             *)
(***************************************************************************)
read(addr, w) ==
  LET attrib == getAttrib(addr)
      attrib2 == getAttrib(addr + w)
      crossing == /\ addr % w # 0
                  /\ getPageStartAddr(addr) # getPageStartAddr(addr + w - 1)
  IN IF ~attrib.read THEN Failed
     ELSE IF crossing /\ ~attrib2.read THEN Failed
     ELSE IF crossing /\ attrib.dccm # attrib2.dccm THEN Failed
     ELSE IF crossing /\ attrib.reg # attrib2.reg THEN Failed
     ELSE IF w = 4 /\ attrib.reg THEN readRegister(addr)
     ELSE IF attrib.reg THEN Failed
     ELSE Returned(LoadBytes(data, addr, w))

readByte(addr) ==
  LET attrib == getAttrib(addr)
  IN IF ~attrib.read THEN Failed
     ELSE IF attrib.reg THEN Failed
     ELSE Returned(<<data[addr]>>)

(***************************************************************************)
(* Instruction fetch.                                                      *)
(***************************************************************************)
readInstHalfWord(addr) ==
  LET attrib == getAttrib(addr)
      attrib2 == getAttrib(addr + 1)
      crossing == /\ addr % 2 # 0
                  /\ getPageStartAddr(addr) # getPageStartAddr(addr + 1)
  IN IF ~attrib.exec THEN Failed
     ELSE IF crossing /\ ~attrib2.exec THEN Failed
     ELSE IF crossing /\ attrib.iccm # attrib2.iccm THEN Failed
     ELSE Returned(LoadBytes(data, addr, 2))

\* Faulty variants: the fetch tests the read flag; the crossing test compares
\* DCCM membership.
readInstWordReadable(addr) ==
  LET attrib == getAttrib(addr)
      attrib2 == getAttrib(addr + 3)
      crossing == /\ addr % 4 # 0
                  /\ getPageStartAddr(addr) # getPageStartAddr(addr + 3)
  IN IF ~attrib.read THEN Failed
     ELSE IF crossing /\ ~attrib2.read THEN Failed
     ELSE IF crossing /\ attrib.iccm # attrib2.iccm THEN Failed
     ELSE Returned(LoadBytes(data, addr, 4))

readInstWordDccm(addr) ==
  LET attrib == getAttrib(addr)
      attrib2 == getAttrib(addr + 3)
      crossing == /\ addr % 4 # 0
                  /\ getPageStartAddr(addr) # getPageStartAddr(addr + 3)
  IN IF ~attrib.exec THEN Failed
     ELSE IF crossing /\ ~attrib2.exec THEN Failed
     ELSE IF crossing /\ attrib.dccm # attrib2.dccm THEN Failed
     ELSE Returned(LoadBytes(data, addr, 4))

readInstWord(addr) ==
  LET attrib == getAttrib(addr)
      attrib2 == getAttrib(addr + 3)
      crossing == /\ addr % 4 # 0
                  /\ getPageStartAddr(addr) # getPageStartAddr(addr + 3)
  IN IF ~attrib.exec THEN Failed
     ELSE IF crossing /\ ~attrib2.exec THEN Failed
     ELSE IF crossing /\ attrib.iccm # attrib2.iccm THEN Failed
     ELSE Returned(LoadBytes(data, addr, 4))

(***************************************************************************)
(* checkWrite: value is an in/out argument, returned unchanged on failure.  *)
(***************************************************************************)
\* Faulty variant: no word-alignment test on register pages.
checkWriteUnaligned(addr, w, value) ==
  LET attrib1 == getAttrib(addr)
      attrib2 == getAttrib(addr + w)
      crossing == /\ addr % w # 0
                  /\ getPageStartAddr(addr) # getPageStartAddr(addr + w - 1)
      no == [ok |-> FALSE, value |-> value]
  IN IF ~attrib1.write THEN no
     ELSE IF crossing /\ ~attrib2.write THEN no
     ELSE IF crossing /\ attrib1.dccm # attrib2.dccm THEN no
     ELSE IF crossing /\ attrib1.reg # attrib2.reg THEN no
     ELSE IF w = 4 THEN Returned(doRegisterMasking(addr, value))
     ELSE IF attrib1.reg THEN no
     ELSE Returned(value)

checkWrite(addr, w, value) ==
  LET attrib1 == getAttrib(addr)
      attrib2 == getAttrib(addr + w)
      crossing == /\ addr % w # 0
                  /\ getPageStartAddr(addr) # getPageStartAddr(addr + w - 1)
      no == [ok |-> FALSE, value |-> value]
  IN IF ~attrib1.write THEN no
     ELSE IF crossing /\ ~attrib2.write THEN no
     ELSE IF crossing /\ attrib1.dccm # attrib2.dccm THEN no
     ELSE IF crossing /\ attrib1.reg # attrib2.reg THEN no
     ELSE IF w = 4 /\ attrib1.reg /\ addr % 4 # 0 THEN no
     ELSE IF w = 4 THEN Returned(doRegisterMasking(addr, value))
     ELSE IF attrib1.reg THEN no
     ELSE Returned(value)

(***************************************************************************)
(* Writes. Each returns the success flag and the byte buffer and the       *)
(* last-write records it leaves.                                           *)
(***************************************************************************)
Unwritten == [ok |-> FALSE, data |-> data, lastWriteData |-> lastWriteData]

Recorded(h, addr, w, value, prev) ==
  [lastWriteData EXCEPT ![h] = [size |-> w, addr |-> addr,
                                value |-> ZeroExtend(value),
                                prevValue |-> ZeroExtend(prev)]]

\* Faulty variant: the value is stored without masking.
writeRegisterUnmasked(h, addr, value) ==
  IF addr % 4 # 0 THEN Unwritten
  ELSE [ok |-> TRUE,
        data |-> StoreBytes(data, addr, value),
        lastWriteData |->
          Recorded(h, addr, 4, value, LoadBytes(data, addr, 4))]

\* Faulty variant: the record holds the value as given, not as stored.
writeRegisterRecordingGiven(h, addr, value) ==
  IF addr % 4 # 0 THEN Unwritten
  ELSE [ok |-> TRUE,
        data |-> StoreBytes(data, addr, doRegisterMasking(addr, value)),
        lastWriteData |->
          Recorded(h, addr, 4, value, LoadBytes(data, addr, 4))]

writeRegister(h, addr, value) ==
  IF addr % 4 # 0 THEN Unwritten
  ELSE LET masked == doRegisterMasking(addr, value)
       IN [ok |-> TRUE,
           data |-> StoreBytes(data, addr, masked),
           lastWriteData |->
             Recorded(h, addr, 4, masked, LoadBytes(data, addr, 4))]

\* Faulty variant: a crossing write does not compare DCCM membership.
writeAcrossDccm(h, addr, w, value) ==
  LET attrib1 == getAttrib(addr)
      attrib2 == getAttrib(addr + w)
      crossing == /\ addr % w # 0
                  /\ getPageStartAddr(addr) # getPageStartAddr(addr + w - 1)
  IN IF ~attrib1.write THEN Unwritten
     ELSE IF crossing /\ ~attrib2.write THEN Unwritten
     ELSE IF crossing /\ attrib1.reg # attrib2.reg THEN Unwritten
     ELSE IF w = 4 /\ attrib1.reg THEN writeRegister(h, addr, value)
     ELSE IF attrib1.reg THEN Unwritten
     ELSE [ok |-> TRUE,
           data |-> StoreBytes(data, addr, value),
           lastWriteData |->
             Recorded(h, addr, w, value, LoadBytes(data, addr, w))]

write(h, addr, w, value) ==
  LET attrib1 == getAttrib(addr)
      attrib2 == getAttrib(addr + w)
      crossing == /\ addr % w # 0
                  /\ getPageStartAddr(addr) # getPageStartAddr(addr + w - 1)
  IN IF ~attrib1.write THEN Unwritten
     ELSE IF crossing /\ ~attrib2.write THEN Unwritten
     ELSE IF crossing /\ attrib1.dccm # attrib2.dccm THEN Unwritten
     ELSE IF crossing /\ attrib1.reg # attrib2.reg THEN Unwritten
     ELSE IF w = 4 /\ attrib1.reg THEN writeRegister(h, addr, value)
     ELSE IF attrib1.reg THEN Unwritten
     ELSE [ok |-> TRUE,
           data |-> StoreBytes(data, addr, value),
           lastWriteData |->
             Recorded(h, addr, w, value, LoadBytes(data, addr, w))]

\* Faulty variant: the last-write record is updated before the register test.
writeByteRecording(h, addr, value) ==
  LET attrib == getAttrib(addr)
  IN IF ~attrib.write THEN Unwritten
     ELSE IF attrib.reg
       THEN [ok |-> FALSE, data |-> data,
             lastWriteData |-> Recorded(h, addr, 1, value, <<data[addr]>>)]
     ELSE [ok |-> TRUE,
           data |-> StoreBytes(data, addr, value),
           lastWriteData |-> Recorded(h, addr, 1, value, <<data[addr]>>)]

writeByte(h, addr, value) ==
  LET attrib == getAttrib(addr)
  IN IF ~attrib.write THEN Unwritten
     ELSE IF attrib.reg THEN Unwritten
     ELSE [ok |-> TRUE,
           data |-> StoreBytes(data, addr, value),
           lastWriteData |-> Recorded(h, addr, 1, value, <<data[addr]>>)]

(***************************************************************************)
(* Queries of the last-write records. addr and value are in/out arguments: *)
(* each query returns the size and what the arguments hold afterwards.     *)
(***************************************************************************)
Reported(size, addr, value) == [size |-> size, addr |-> addr, value |-> value]

\* Faulty variant: the record is reported whatever its size.
NewValueOfStale(lwd, addr, value) == Reported(lwd.size, lwd.addr, lwd.value)

\* The query of the new value, on a given record.
NewValueOf(lwd, addr, value) ==
  IF lwd.size # 0 THEN Reported(lwd.size, lwd.addr, lwd.value)
  ELSE Reported(lwd.size, addr, value)

getLastWriteNewValue(h, addr, value) == NewValueOf(lastWriteData[h], addr, value)

\* The three-argument getLastWriteOldValue: it assigns lwd.value_.
getLastWriteOldValue(h, addr, value) ==
  LET lwd == lastWriteData[h]
  IN IF lwd.size # 0 THEN Reported(lwd.size, lwd.addr, lwd.value)
     ELSE Reported(lwd.size, addr, value)

\* The two-argument getLastWriteOldValue: addr is not an argument.
getLastWriteOldValue2(h, value) ==
  LET lwd == lastWriteData[h]
  IN IF lwd.size # 0 THEN [size |-> lwd.size, value |-> lwd.prevValue]
     ELSE [size |-> lwd.size, value |-> value]

\* Faulty variant: the records of all harts are cleared.
clearEveryLastWriteInfo(h) ==
  [g \in Harts |-> [lastWriteData[g] EXCEPT !.size = 0]]

clearLastWriteInfo(h) == [lastWriteData EXCEPT ![h].size = 0]

(***************************************************************************)
(* Pokes: not recorded in the last-write records.                          *)
(***************************************************************************)
Unpoked == [ok |-> FALSE, data |-> data]

\* Faulty variant: the page after the first is not looked up.
pokeOnePage(addr, w, value) ==
  LET attrib == getAttrib(addr)
  IN IF ~isMapped(attrib) THEN Unpoked
     ELSE IF w = 4 /\ attrib.reg /\ addr % 4 # 0 THEN Unpoked
     ELSE IF w # 4 /\ attrib.reg THEN Unpoked
     ELSE [ok |-> TRUE, data |-> StoreBytes(data, addr, value)]

\* Faulty variant: a word poked into a register page is masked.
pokeMasked(addr, w, value) ==
  LET attrib == getAttrib(addr)
      attrib2 == getAttrib(addr + w)
      pageEnd == getPageStartAddr(addr) + PageSize
  IN IF ~isMapped(attrib) THEN Unpoked
     ELSE IF addr + w > pageEnd /\ ~isMapped(attrib2) THEN Unpoked
     ELSE IF w = 4 /\ attrib.reg /\ addr % 4 # 0 THEN Unpoked
     ELSE IF w # 4 /\ attrib.reg THEN Unpoked
     ELSE IF w = 4 /\ attrib.reg
       THEN [ok |-> TRUE,
             data |-> StoreBytes(data, addr, doRegisterMasking(addr, value))]
     ELSE [ok |-> TRUE, data |-> StoreBytes(data, addr, value)]

\* Faulty variant: poke asks for a writable page, as write does.
pokeWritable(addr, w, value) ==
  LET attrib == getAttrib(addr)
      attrib2 == getAttrib(addr + w)
      pageEnd == getPageStartAddr(addr) + PageSize
  IN IF ~attrib.write THEN Unpoked
     ELSE IF addr + w > pageEnd /\ ~isMapped(attrib2) THEN Unpoked
     ELSE IF w = 4 /\ attrib.reg /\ addr % 4 # 0 THEN Unpoked
     ELSE IF w # 4 /\ attrib.reg THEN Unpoked
     ELSE [ok |-> TRUE, data |-> StoreBytes(data, addr, value)]

poke(addr, w, value) ==
  LET attrib == getAttrib(addr)
      attrib2 == getAttrib(addr + w)
      pageEnd == getPageStartAddr(addr) + PageSize
  IN IF ~isMapped(attrib) THEN Unpoked
     ELSE IF addr + w > pageEnd /\ ~isMapped(attrib2) THEN Unpoked
     ELSE IF w = 4 /\ attrib.reg /\ addr % 4 # 0 THEN Unpoked
     ELSE IF w # 4 /\ attrib.reg THEN Unpoked
     ELSE [ok |-> TRUE, data |-> StoreBytes(data, addr, value)]

\* Faulty variant: a byte can be poked into a register page.
pokeByteAnywhere(addr, value) ==
  LET attrib == getAttrib(addr)
  IN IF ~isMapped(attrib) THEN Unpoked
     ELSE [ok |-> TRUE, data |-> StoreBytes(data, addr, value)]

pokeByte(addr, value) ==
  LET attrib == getAttrib(addr)
  IN IF ~isMapped(attrib) THEN Unpoked
     ELSE IF attrib.reg THEN Unpoked
     ELSE [ok |-> TRUE, data |-> StoreBytes(data, addr, value)]

(***************************************************************************)
(* Reservations. Each update returns the reservations it leaves.           *)
(***************************************************************************)
\* Faulty variants of invalidateOtherHartLr: no reservation is touched; the
\* byte just past either interval counts as inside it; only stores at or
\* above the reserved address are seen.
invalidateNoHartLr(h, addr, storeSize) == reservations

invalidateOtherHartLrClosed(h, addr, storeSize) ==
  [i \in Harts |->
     LET res == reservations[i]
     IN IF i = h THEN res
        ELSE IF addr >= res.addr /\ (addr - res.addr) <= res.size
          THEN [res EXCEPT !.valid = FALSE]
        ELSE IF addr < res.addr /\ (res.addr - addr) <= storeSize
          THEN [res EXCEPT !.valid = FALSE]
        ELSE res]

invalidateOtherHartLrAbove(h, addr, storeSize) ==
  [i \in Harts |->
     LET res == reservations[i]
     IN IF i = h THEN res
        ELSE IF addr >= res.addr /\ (addr - res.addr) < res.size
          THEN [res EXCEPT !.valid = FALSE]
        ELSE res]

invalidateOtherHartLr(h, addr, storeSize) ==
  [i \in Harts |->
     LET res == reservations[i]
     IN IF i = h THEN res
        ELSE IF addr >= res.addr /\ (addr - res.addr) < res.size
          THEN [res EXCEPT !.valid = FALSE]
        ELSE IF addr < res.addr /\ (res.addr - addr) < storeSize
          THEN [res EXCEPT !.valid = FALSE]
        ELSE res]

\* Faulty variant: every hart's reservation is invalidated.
invalidateEveryLr(h) == [i \in Harts |-> [reservations[i] EXCEPT !.valid = FALSE]]

invalidateLr(h) == [reservations EXCEPT ![h].valid = FALSE]

\* Faulty variant: a new reservation ends the other harts' reservations of
\* the same address.
makeLrExclusive(h, addr, size) ==
  [i \in Harts |->
     IF i = h THEN [addr |-> addr, size |-> size, valid |-> TRUE]
     ELSE IF reservations[i].addr = addr
       THEN [reservations[i] EXCEPT !.valid = FALSE]
     ELSE reservations[i]]

makeLr(h, addr, size) ==
  [reservations EXCEPT ![h] = [addr |-> addr, size |-> size, valid |-> TRUE]]

\* Faulty variant: any address inside the reserved interval matches.
hasLrWithin(h, addr) ==
  /\ reservations[h].valid
  /\ reservations[h].addr <= addr
  /\ addr < reservations[h].addr + reservations[h].size

hasLr(h, addr) == reservations[h].valid /\ reservations[h].addr = addr

(***************************************************************************)
(* Protection toggles: no-op when the address is outside the table.        *)
(***************************************************************************)
\* Faulty variant: the three access flags of the page are set together.
setReadAccessAll(addr, flag) ==
  LET ix == getPageIx(addr)
  IN IF ix >= NumPages THEN attribs
     ELSE [attribs EXCEPT ![ix].read = flag, ![ix].write = flag,
                          ![ix].exec = flag]

setReadAccess(addr, flag) ==
  LET ix == getPageIx(addr)
  IN IF ix >= NumPages THEN attribs
     ELSE [attribs EXCEPT ![ix].read = flag]

\* Faulty variant: an address past the table toggles the last page.
setWriteAccessClamped(addr, flag) ==
  LET ix == getPageIx(addr)
  IN IF ix >= NumPages THEN [attribs EXCEPT ![NumPages - 1].write = flag]
     ELSE [attribs EXCEPT ![ix].write = flag]

setWriteAccess(addr, flag) ==
  LET ix == getPageIx(addr)
  IN IF ix >= NumPages THEN attribs
     ELSE [attribs EXCEPT ![ix].write = flag]

setExecAccess(addr, flag) ==
  LET ix == getPageIx(addr)
  IN IF ix >= NumPages THEN attribs
     ELSE [attribs EXCEPT ![ix].exec = flag]

(***************************************************************************)
(* The memory after construction and region configuration.                 *)
(***************************************************************************)
\* The mask vector of a register page: its words cycle through MaskValues.
MaskVector == [i \in 1 .. WordsPerPage |-> MaskValues[((i - 1) % 4) + 1]]

\* masks_ is empty until a mask is defined; then it has one slot per page,
\* and only register pages hold a vector.
MaskTables(att) ==
  IF \A p \in Pages : ~att[p].reg THEN {<<>>}
  ELSE {<<>>} \cup
       {[i \in 1 .. NumPages |-> IF att[i - 1].reg THEN MaskVector ELSE <<>>]}

(***************************************************************************)
(* The region configurator.                                                *)
(***************************************************************************)
\* The page is claimed by an ICCM, DCCM or register window.
Claimed(a) == a.iccm \/ a.dccm \/ a.reg

\* The pages of the window of given size at region * regionSize + offset.
Window(region, offset, size) ==
  {p \in Pages : /\ region * RegionSize + offset <= p * PageSize
                 /\ p * PageSize < region * RegionSize + offset + size}

\* Faulty variant: the end of the window is not compared with the memory size.
checkCcmConfigAligned(region, offset, size) ==
  /\ (region * RegionSize + offset) % PageSize = 0
  /\ size % PageSize = 0

\* The window starts and ends at a page boundary and fits in the memory.
checkCcmConfig(region, offset, size) ==
  /\ (region * RegionSize + offset) % PageSize = 0
  /\ size % PageSize = 0
  /\ region * RegionSize + offset + size <= MemSize

\* Faulty variant: windows of different kinds may share pages.
checkCcmOverlapAllowed(att, region, offset, size, iccm, dccm, pic) == TRUE

\* No page of the window is claimed by a window of another kind.
checkCcmOverlap(att, region, offset, size, iccm, dccm, pic) ==
  \A p \in Window(region, offset, size) :
    /\ att[p].iccm => iccm
    /\ att[p].dccm => dccm
    /\ att[p].reg => pic

\* What a define call leaves: its status, the attribute table and the
\* configured regions.
Rejected(att) ==
  [ok |-> FALSE, attribs |-> att, regionConfigured |-> regionConfigured]
Defined(att, region, offset, size, attrib) ==
  [ok |-> TRUE,
   attribs |-> [p \in Pages |-> IF p \in Window(region, offset, size)
                                THEN attrib ELSE att[p]],
   regionConfigured |-> regionConfigured \cup {region}]

\* Faulty variant: the window is marked readable, writable and executable.
defineDccmExecutable(att, region, offset, size) ==
  IF ~checkCcmConfig(region, offset, size) THEN Rejected(att)
  ELSE IF ~checkCcmOverlap(att, region, offset, size, FALSE, TRUE, FALSE)
  THEN Rejected(att)
  ELSE Defined(att, region, offset, size,
               PageAttribs(TRUE, TRUE, TRUE, FALSE, FALSE, TRUE))

defineDccm(att, region, offset, size) ==
  IF ~checkCcmConfig(region, offset, size) THEN Rejected(att)
  ELSE IF ~checkCcmOverlap(att, region, offset, size, FALSE, TRUE, FALSE)
  THEN Rejected(att)
  ELSE Defined(att, region, offset, size, DccmPage)

\* Faulty variant: the window is flagged ICCM whatever its pages were.
defineIccmFlagging(att, region, offset, size) ==
  IF ~checkCcmConfig(region, offset, size) THEN Rejected(att)
  ELSE [ok |-> TRUE,
        attribs |-> [p \in Pages |->
                       IF p \in Window(region, offset, size)
                       THEN [att[p] EXCEPT !.iccm = TRUE, !.read = TRUE,
                                           !.exec = TRUE]
                       ELSE att[p]],
        regionConfigured |-> regionConfigured \cup {region}]

defineIccm(att, region, offset, size) ==
  IF ~checkCcmConfig(region, offset, size) THEN Rejected(att)
  ELSE IF ~checkCcmOverlap(att, region, offset, size, TRUE, FALSE, FALSE)
  THEN Rejected(att)
  ELSE Defined(att, region, offset, size, IccmPage)

defineMemoryMappedRegisterRegion(att, region, offset, size) ==
  IF ~checkCcmConfig(region, offset, size) THEN Rejected(att)
  ELSE IF ~checkCcmOverlap(att, region, offset, size, FALSE, FALSE, TRUE)
  THEN Rejected(att)
  ELSE Defined(att, region, offset, size, RegisterPage)

\* Faulty variant: the mask vector of a page is allocated with zero masks.
ZeroMasks == [i \in 1 .. WordsPerPage |-> Zeros(4)]

\* The mask vector of a page when it is allocated: all-ones in every word.
DefaultMasks == [i \in 1 .. WordsPerPage |-> AllOnes]
\* The mask table when it is allocated: one empty slot per page.
NoMasks == [i \in 1 .. NumPages |-> <<>>]

defineMemoryMappedRegisterWriteMask(att, msk, region, regionOffset, registerBlockOffset, registerIx, mask) ==
  LET addr == region * RegionSize + regionOffset + registerBlockOffset
                + registerIx * 4
      pageIx == getPageIx(addr)
      wordIx == (addr - getPageStartAddr(addr)) \div 4
      table == IF msk = <<>> THEN NoMasks ELSE msk
      pageMasks == IF table[pageIx + 1] = <<>> THEN DefaultMasks
                   ELSE table[pageIx + 1]
  IN IF pageIx >= NumPages THEN [ok |-> FALSE, masks |-> msk]
     ELSE IF ~att[pageIx].reg THEN [ok |-> FALSE, masks |-> msk]
     ELSE IF addr % 4 # 0 THEN [ok |-> FALSE, masks |-> msk]
     ELSE [ok |-> TRUE,
           masks |-> [table EXCEPT ![pageIx + 1] =
                        [pageMasks EXCEPT ![wordIx + 1] = mask]]]

\* Faulty variant: the unclaimed pages of a configured region are unmapped.
finishCcmConfigClosing(att) ==
  [p \in Pages |->
     IF p \div RegionPages \in regionConfigured /\ ~Claimed(att[p])
     THEN NoAccess ELSE att[p]]

\* Every page of a configured region that no window claimed is external
\* memory with full access.
finishCcmConfig(att) ==
  [p \in Pages |->
     IF p \div RegionPages \in regionConfigured /\ ~Claimed(att[p])
     THEN ExternalPage ELSE att[p]]

\* The regions holding a page that a window claimed.
ConfiguredRegions(att) ==
  {region \in Regions : \E p \in PagesOf(region) : Claimed(att[p])}

\* applyMemoryConfig before its first step and after its last.
NoException == "none"
OutOfRangeException == "out_of_range"
Unconfigured ==
  [stage |-> "iccm", errors |-> 0, finished |-> 0, attempted |-> {},
   windows |-> 0, defines |-> 0, masked |-> 0]
Configured ==
  [stage |-> "done", errors |-> 0, finished |-> 1,
   attempted |-> {"iccm", "dccm", "pic"}, windows |-> 0, defines |-> 0,
   masked |-> 0]

ZeroData == [a \in 0 .. (MemSize - 1) |-> 0]
Image == [a \in 0 .. (MemSize - 1) |-> (a * 17 + 3) % 256]

NoLastWrite == [size |-> 0, addr |-> 0, value |-> Zeros(8), prevValue |-> Zeros(8)]
NoReservation == [addr |-> 0, size |-> 0, valid |-> FALSE]

Call(op, h, addr, w, value) ==
  [op |-> op, hart |-> h, addr |-> addr, size |-> w, value |-> value]
NoCall == Call("none", Free, 0, 0, NoValue)

Snapshot ==
  [data |-> data, lastWriteData |-> lastWriteData, reservations |-> reservations,
   attribs |-> attribs, masks |-> masks]

\* No store in progress.
NoStore == [addr |-> 0, value |-> NoValue]

\* Bits of mhartstart: one per hart, and one that belongs to no hart.
Bits == 0 .. NumHarts
\* mhartstart before the configuration names its reset value and masks.
ResetMhartstart == [value |-> {0}, mask |-> Bits, pokeMask |-> Bits]

\* The memory with its harts counted and nothing stored, on any page table.
Constructed ==
  /\ attribs \in [Pages -> ConfiguredPages]
  /\ masks \in MaskTables(attribs)
  /\ data = ZeroData
  /\ lastWriteData = [h \in Harts |-> NoLastWrite]
  /\ reservations = [h \in Harts |-> NoReservation]
  /\ call = NoCall
  /\ ret = Failed
  /\ before = Snapshot
  /\ nops = 0
  /\ ntoggles = 0
  /\ pc = [h \in Harts |-> "idle"]
  /\ lrMutex = Free
  /\ observed = [h \in Harts |-> FALSE]
  /\ persisting = {}
  /\ invalidated = {}
  /\ writing = [h \in Harts |-> NoStore]
  /\ stored = <<>>
  /\ mhartstart = ResetMhartstart
  /\ started = [h \in Harts |-> h = 0]
  /\ hist = [everSet |-> ResetMhartstart.value, everStarted |-> {0},
             value |-> ResetMhartstart.value,
             started |-> [h \in Harts |-> h = 0]]

\* The memory after the configuration was applied to it.
Init ==
  /\ Constructed
  /\ regionConfigured = ConfiguredRegions(attribs)
  /\ cfg = Configured
  /\ thrown = NoException

lrVars == <<reservations, pc, lrMutex, observed, persisting, invalidated>>

(***************************************************************************)
(* Setup steps, before the harts run.                                      *)
(***************************************************************************)
\* The image loader fills the byte buffer.
LoadImage ==
  /\ nops = 0 /\ ntoggles = 0 /\ data = ZeroData
  /\ data' = Image
  /\ UNCHANGED <<attribs, masks, lastWriteData, call, ret, before, nops, ntoggles>>
  /\ UNCHANGED lrVars
  /\ UNCHANGED <<cfgVars, hartVars>>

\* A store executed earlier: hart h wrote a word at address 0.
PriorWrite(h) ==
  LET r == write(h, 0, 4, <<1, 2, 3, 4>>)
  IN /\ nops = 0 /\ ntoggles = 0
     /\ \A g \in Harts : lastWriteData[g].size = 0
     /\ r.ok
     /\ data' = r.data
     /\ lastWriteData' = r.lastWriteData
     /\ UNCHANGED <<attribs, masks, call, ret, before, nops, ntoggles>>
     /\ UNCHANGED lrVars
     /\ UNCHANGED <<cfgVars, hartVars>>

Halted == nops = 0 /\ ntoggles < MaxToggles

\* The bool argument of a toggle, as the value of the call.
Flag(flag) == IF flag THEN <<1>> ELSE <<0>>

Toggled(op, addr, flag) ==
  /\ ntoggles' = ntoggles + 1
  /\ call' = Call(op, Free, addr, 0, Flag(flag))
  /\ ret' = Returned(NoValue)
  /\ before' = Snapshot
  /\ UNCHANGED <<masks, data, lastWriteData, nops>>
  /\ UNCHANGED lrVars
  /\ UNCHANGED <<cfgVars, hartVars>>

SetReadAccess(addr, flag) ==
  /\ Halted
  /\ attribs' = setReadAccess(addr, flag)
  /\ Toggled("setReadAccess", addr, flag)

SetWriteAccess(addr, flag) ==
  /\ Halted
  /\ attribs' = setWriteAccess(addr, flag)
  /\ Toggled("setWriteAccess", addr, flag)

SetExecAccess(addr, flag) ==
  /\ Halted
  /\ attribs' = setExecAccess(addr, flag)
  /\ Toggled("setExecAccess", addr, flag)

Running == nops < MaxOps

(***************************************************************************)
(* Access operations.                                                      *)
(***************************************************************************)
\* What an access operation leaves: the call, its result, the state it found,
\* the byte buffer and the last-write records.
Accessed(c, r, d, lwd) ==
  /\ call' = c
  /\ ret' = r
  /\ before' = Snapshot
  /\ data' = d
  /\ lastWriteData' = lwd
  /\ nops' = nops + 1
  /\ UNCHANGED <<attribs, masks, ntoggles>>
  /\ UNCHANGED lrVars
  /\ UNCHANGED <<cfgVars, hartVars>>

Status(r) == [ok |-> r.ok, value |-> NoValue]

Read(addr, w) ==
  /\ Running
  /\ Accessed(Call("read", Free, addr, w, NoValue), read(addr, w),
              data, lastWriteData)

ReadByte(addr) ==
  /\ Running
  /\ Accessed(Call("readByte", Free, addr, 1, NoValue), readByte(addr),
              data, lastWriteData)

ReadInstHalfWord(addr) ==
  /\ Running
  /\ Accessed(Call("readInstHalfWord", Free, addr, 2, NoValue),
              readInstHalfWord(addr), data, lastWriteData)

ReadInstWord(addr) ==
  /\ Running
  /\ Accessed(Call("readInstWord", Free, addr, 4, NoValue),
              readInstWord(addr), data, lastWriteData)

CheckWrite(addr, w, value) ==
  /\ Running
  /\ Accessed(Call("checkWrite", Free, addr, w, value),
              checkWrite(addr, w, value), data, lastWriteData)

Write(h, addr, w, value) ==
  LET r == write(h, addr, w, value)
  IN /\ Running
     /\ Accessed(Call("write", h, addr, w, value), Status(r),
                 r.data, r.lastWriteData)

WriteByte(h, addr, value) ==
  LET r == writeByte(h, addr, value)
  IN /\ Running
     /\ Accessed(Call("writeByte", h, addr, 1, value), Status(r),
                 r.data, r.lastWriteData)

Poke(addr, w, value) ==
  LET r == poke(addr, w, value)
  IN /\ Running
     /\ Accessed(Call("poke", Free, addr, w, value), Status(r),
                 r.data, lastWriteData)

PokeByte(addr, value) ==
  LET r == pokeByte(addr, value)
  IN /\ Running
     /\ Accessed(Call("pokeByte", Free, addr, 1, value), Status(r),
                 r.data, lastWriteData)

PageStarts == {p * PageSize : p \in 0 .. NumPages}

\* One step per operation; its guard is tested before its arguments are drawn.
SetReadAccessCall ==
  Halted /\ \E addr \in PageStarts, flag \in BOOLEAN : SetReadAccess(addr, flag)
SetWriteAccessCall ==
  Halted /\ \E addr \in PageStarts, flag \in BOOLEAN : SetWriteAccess(addr, flag)
SetExecAccessCall ==
  Halted /\ \E addr \in PageStarts, flag \in BOOLEAN : SetExecAccess(addr, flag)
ReadCall == Running /\ \E addr \in Addrs, w \in Widths : Read(addr, w)
ReadByteCall == Running /\ \E addr \in Addrs : ReadByte(addr)
ReadInstHalfWordCall == Running /\ \E addr \in Addrs : ReadInstHalfWord(addr)
ReadInstWordCall == Running /\ \E addr \in Addrs : ReadInstWord(addr)
CheckWriteCall ==
  Running /\ \E addr \in Addrs, w \in Widths :
               \E value \in Values(w) : CheckWrite(addr, w, value)
WriteCall ==
  Running /\ \E h \in Harts, addr \in Addrs, w \in Widths :
               \E value \in Values(w) : Write(h, addr, w, value)
WriteByteCall ==
  Running /\ \E h \in Harts, addr \in Addrs :
               \E value \in Values(1) : WriteByte(h, addr, value)
PokeCall ==
  Running /\ \E addr \in Addrs, w \in Widths :
               \E value \in Values(w) : Poke(addr, w, value)
PokeByteCall ==
  Running /\ \E addr \in Addrs : \E value \in Values(1) : PokeByte(addr, value)

Next ==
  \/ LoadImage
  \/ \E h \in Harts : PriorWrite(h)
  \/ SetReadAccessCall
  \/ SetWriteAccessCall
  \/ SetExecAccessCall
  \/ ReadCall
  \/ ReadByteCall
  \/ ReadInstHalfWordCall
  \/ ReadInstWordCall
  \/ CheckWriteCall
  \/ WriteCall
  \/ WriteByteCall
  \/ PokeCall
  \/ PokeByteCall

Spec == Init /\ [][Next]_vars

(***************************************************************************)
(* The reservation tracker alone: any hart calls any reservation operation *)
(* in any order, on an all-external memory.                                *)
(***************************************************************************)
LrWindow == 8
LrSizes == {4, 8}                                    \* LR.W, LR.D
\* Address and size of a reservation: naturally aligned, as LR requires.
LrArgs == {r \in (0 .. (LrWindow - 1)) \X LrSizes : r[1] % r[2] = 0}
StoreAddrs == 0 .. (LrWindow - 1)                    \* addresses stored to, queried
StoreSizes == {1, 2, 4, 8}

memVars == <<attribs, masks, data, lastWriteData, nops, ntoggles>>
scVars == <<pc, lrMutex, observed>>

InitLr ==
  /\ Init
  /\ attribs = [p \in Pages |-> ExternalPage]

\* Half-open intervals [x, x+n) and [a, a+s) share a byte.
Overlap(x, n, a, s) == \E b \in x .. (x + n - 1) : a <= b /\ b < a + s

\* History of the reservation calls. persisting holds each makeLr(h, a, s)
\* after which there was no invalidateLr(h), no makeLr(h, a', ..) with
\* a' # a and no invalidateOtherHartLr(g, x, n) with g # h and [x, x+n)
\* overlapping [a, a+s); resized tells whether a later makeLr(h, a, s') had
\* s' # s.
MadeLr(h, addr, size) ==
  [hart |-> h, addr |-> addr, size |-> size, resized |-> FALSE]

PersistingAfterMakeLr(h, addr, size) ==
  {t \in persisting : t.hart # h}
    \cup {[t EXCEPT !.resized = t.resized \/ t.size # size] :
            t \in {u \in persisting : u.hart = h /\ u.addr = addr}}
    \cup {MadeLr(h, addr, size)}

PersistingAfterInvalidateLr(h) == {t \in persisting : t.hart # h}

PersistingAfterInvalidateOtherHartLr(g, x, n) ==
  {t \in persisting : t.hart = g \/ ~Overlap(x, n, t.addr, t.size)}

Returns(c, r) ==
  /\ call' = c
  /\ ret' = r
  /\ before' = Snapshot

MakeLr(h, addr, size) ==
  /\ Returns(Call("makeLr", h, addr, size, NoValue), Returned(NoValue))
  /\ reservations' = makeLr(h, addr, size)
  /\ persisting' = PersistingAfterMakeLr(h, addr, size)
  /\ invalidated' = invalidated \ {h}
  /\ UNCHANGED memVars
  /\ UNCHANGED <<cfgVars, hartVars>>
  /\ UNCHANGED scVars

InvalidateLr(h) ==
  /\ Returns(Call("invalidateLr", h, 0, 0, NoValue), Returned(NoValue))
  /\ reservations' = invalidateLr(h)
  /\ persisting' = PersistingAfterInvalidateLr(h)
  /\ invalidated' = invalidated \cup {h}
  /\ UNCHANGED memVars
  /\ UNCHANGED <<cfgVars, hartVars>>
  /\ UNCHANGED scVars

InvalidateOtherHartLr(h, addr, storeSize) ==
  /\ Returns(Call("invalidateOtherHartLr", h, addr, storeSize, NoValue),
             Returned(NoValue))
  /\ reservations' = invalidateOtherHartLr(h, addr, storeSize)
  /\ persisting' = PersistingAfterInvalidateOtherHartLr(h, addr, storeSize)
  /\ UNCHANGED invalidated
  /\ UNCHANGED memVars
  /\ UNCHANGED <<cfgVars, hartVars>>
  /\ UNCHANGED scVars

HasLr(h, addr) ==
  /\ Returns(Call("hasLr", h, addr, 0, NoValue),
             [ok |-> hasLr(h, addr), value |-> NoValue])
  /\ UNCHANGED <<reservations, persisting, invalidated>>
  /\ UNCHANGED memVars
  /\ UNCHANGED <<cfgVars, hartVars>>
  /\ UNCHANGED scVars

MakeLrCall == \E h \in Harts, r \in LrArgs : MakeLr(h, r[1], r[2])
InvalidateLrCall == \E h \in Harts : InvalidateLr(h)
InvalidateOtherHartLrCall ==
  \E h \in Harts, addr \in StoreAddrs, storeSize \in StoreSizes :
    InvalidateOtherHartLr(h, addr, storeSize)
HasLrCall == \E h \in Harts, addr \in StoreAddrs : HasLr(h, addr)

NextLr ==
  \/ MakeLrCall
  \/ InvalidateLrCall
  \/ InvalidateOtherHartLrCall
  \/ HasLrCall

SpecLr == InitLr /\ [][NextLr]_vars

(***************************************************************************)
(* Load-reserve and store-conditional instructions of the harts. Every     *)
(* hart reserves the same word, then every hart executes one               *)
(* store-conditional: hasLr, and when it holds the store and               *)
(* invalidateOtherHartLr, then invalidateLr. Each instruction runs with    *)
(* lrMutex_ held.                                                          *)
(***************************************************************************)
ScStep(h, from, to) ==
  /\ pc[h] = from
  /\ pc' = [pc EXCEPT ![h] = to]

Lock(h) == lrMutex = Free /\ lrMutex' = h
Unlock(h) == lrMutex = h /\ lrMutex' = Free

\* The word every hart reserves: the one already reserved, if any.
Reservable(addr) ==
  \A g \in Harts : reservations[g].valid => reservations[g].addr = addr

LrLock(h) ==
  /\ ScStep(h, "idle", "lr")
  /\ Lock(h)
  /\ UNCHANGED <<reservations, observed, call, ret, before, persisting, invalidated>>
  /\ UNCHANGED memVars
  /\ UNCHANGED <<cfgVars, hartVars>>

LrReserve(h, addr, size) ==
  /\ ScStep(h, "lr", "lr_unlock")
  /\ Reservable(addr)
  /\ reservations' = makeLr(h, addr, size)
  /\ UNCHANGED <<lrMutex, observed, call, ret, before, persisting, invalidated>>
  /\ UNCHANGED memVars
  /\ UNCHANGED <<cfgVars, hartVars>>

LrUnlock(h) ==
  /\ ScStep(h, "lr_unlock", "reserved")
  /\ Unlock(h)
  /\ UNCHANGED <<reservations, observed, call, ret, before, persisting, invalidated>>
  /\ UNCHANGED memVars
  /\ UNCHANGED <<cfgVars, hartVars>>

ScLock(h) ==
  /\ \A g \in Harts : pc[g] \notin {"idle", "lr", "lr_unlock"}
  /\ ScStep(h, "reserved", "sc")
  /\ Lock(h)
  /\ UNCHANGED <<reservations, observed, call, ret, before, persisting, invalidated>>
  /\ UNCHANGED memVars
  /\ UNCHANGED <<cfgVars, hartVars>>

\* The hart stores to the word it reserved.
ScCheck(h) ==
  LET held == hasLr(h, reservations[h].addr)
  IN /\ ScStep(h, "sc", IF held THEN "sc_store" ELSE "sc_invalidate")
     /\ observed' = [observed EXCEPT ![h] = held]
     /\ UNCHANGED <<reservations, lrMutex, call, ret, before, persisting, invalidated>>
     /\ UNCHANGED memVars
     /\ UNCHANGED <<cfgVars, hartVars>>

ScStore(h, value) ==
  LET r == write(h, reservations[h].addr, reservations[h].size, value)
  IN /\ ScStep(h, "sc_store", "sc_others")
     /\ value \in Values(reservations[h].size)
     /\ r.ok
     /\ data' = r.data
     /\ lastWriteData' = r.lastWriteData
     /\ UNCHANGED <<reservations, lrMutex, observed, call, ret, before, persisting, invalidated>>
     /\ UNCHANGED <<attribs, masks, nops, ntoggles>>
     /\ UNCHANGED <<cfgVars, hartVars>>

ScInvalidateOthers(h) ==
  /\ ScStep(h, "sc_others", "sc_invalidate")
  /\ reservations' =
       invalidateOtherHartLr(h, reservations[h].addr, reservations[h].size)
  /\ UNCHANGED <<lrMutex, observed, call, ret, before, persisting, invalidated>>
  /\ UNCHANGED memVars
  /\ UNCHANGED <<cfgVars, hartVars>>

ScInvalidate(h) ==
  /\ ScStep(h, "sc_invalidate", "sc_unlock")
  /\ reservations' = invalidateLr(h)
  /\ UNCHANGED <<lrMutex, observed, call, ret, before, persisting, invalidated>>
  /\ UNCHANGED memVars
  /\ UNCHANGED <<cfgVars, hartVars>>

ScUnlock(h) ==
  /\ ScStep(h, "sc_unlock", "done")
  /\ Unlock(h)
  /\ UNCHANGED <<reservations, observed, call, ret, before, persisting, invalidated>>
  /\ UNCHANGED memVars
  /\ UNCHANGED <<cfgVars, hartVars>>

NextSc ==
  \/ \E h \in Harts : LrLock(h)
  \/ \E h \in Harts, r \in LrArgs : LrReserve(h, r[1], r[2])
  \/ \E h \in Harts : LrUnlock(h)
  \/ \E h \in Harts : ScLock(h)
  \/ \E h \in Harts : ScCheck(h)
  \/ \E h \in Harts, size \in LrSizes : \E value \in Values(size) : ScStore(h, value)
  \/ \E h \in Harts : ScInvalidateOthers(h)
  \/ \E h \in Harts : ScInvalidate(h)
  \/ \E h \in Harts : ScUnlock(h)

SpecSc == InitLr /\ [][NextSc]_vars

(***************************************************************************)
(* Harts storing in turn: up to MaxSteps writes, dry runs, clears and      *)
(* queries of the last-write records, by any hart in any order, on a       *)
(* memory whose last page is a register page with write masks and whose    *)
(* other pages are external.                                               *)
(***************************************************************************)
MaxSteps == 3

LastPage == MemSize - PageSize
\* First byte, last byte of the first page, a register word, and the middle
\* of a register word.
StepAddrs == {0, PageSize - 1, LastPage, LastPage + 2}
StepWidths == {2, 4}
\* What the in/out arguments of a query hold when it is called.
ArgAddr == MemSize
ArgValue == [i \in 1 .. 8 |-> 85]

InitSteps ==
  /\ Init
  /\ attribs = [p \in Pages |-> IF p = NumPages - 1 THEN RegisterPage
                                 ELSE ExternalPage]
  /\ masks # <<>>

Stepping == nops < MaxSteps

\* A load-reserve executed earlier by the first hart.
PriorLr ==
  /\ nops = 0
  /\ \A h \in Harts : ~reservations[h].valid
  /\ MakeLr(0, 0, 4)

\* Faulty variant: the store also ends the other harts' reservations on it.
StepWriteInvalidating(h, addr, w, value) ==
  LET r == write(h, addr, w, value)
  IN /\ Stepping
     /\ call' = Call("write", h, addr, w, value)
     /\ ret' = Status(r)
     /\ before' = Snapshot
     /\ data' = r.data
     /\ lastWriteData' = r.lastWriteData
     /\ nops' = nops + 1
     /\ reservations' = IF r.ok THEN invalidateOtherHartLr(h, addr, w)
                        ELSE reservations
     /\ UNCHANGED <<attribs, masks, ntoggles, pc, lrMutex, observed,
                    persisting, invalidated>>
     /\ UNCHANGED <<cfgVars, hartVars>>

StepWrite(h, addr, w, value) ==
  LET r == write(h, addr, w, value)
  IN /\ Stepping
     /\ Accessed(Call("write", h, addr, w, value), Status(r),
                 r.data, r.lastWriteData)

StepWriteByte(h, addr, value) ==
  LET r == writeByte(h, addr, value)
  IN /\ Stepping
     /\ Accessed(Call("writeByte", h, addr, 1, value), Status(r),
                 r.data, r.lastWriteData)

\* Faulty variant: the dry run commits the store on behalf of the first hart.
StepCheckWriteCommitting(addr, w, value) ==
  LET r == write(0, addr, w, value)
  IN /\ Stepping
     /\ Accessed(Call("checkWrite", Free, addr, w, value),
                 checkWrite(addr, w, value), r.data, r.lastWriteData)

StepCheckWrite(addr, w, value) ==
  /\ Stepping
  /\ Accessed(Call("checkWrite", Free, addr, w, value),
              checkWrite(addr, w, value), data, lastWriteData)

ClearLastWriteInfo(h) ==
  /\ Stepping
  /\ Accessed(Call("clearLastWriteInfo", h, 0, 0, NoValue), Returned(NoValue),
              data, clearLastWriteInfo(h))

GetLastWriteNewValue(h) ==
  /\ Stepping
  /\ Accessed(Call("getLastWriteNewValue", h, ArgAddr, 0, ArgValue),
              getLastWriteNewValue(h, ArgAddr, ArgValue), data, lastWriteData)

GetLastWriteOldValue(h) ==
  /\ Stepping
  /\ Accessed(Call("getLastWriteOldValue", h, ArgAddr, 0, ArgValue),
              getLastWriteOldValue(h, ArgAddr, ArgValue), data, lastWriteData)

GetLastWriteOldValue2(h) ==
  /\ Stepping
  /\ Accessed(Call("getLastWriteOldValue2", h, 0, 0, ArgValue),
              getLastWriteOldValue2(h, ArgValue), data, lastWriteData)

StepWriteCall ==
  Stepping /\ \E h \in Harts, addr \in StepAddrs, w \in StepWidths :
                \E value \in Values(w) : StepWrite(h, addr, w, value)
StepWriteByteCall ==
  Stepping /\ \E h \in Harts, addr \in StepAddrs :
                StepWriteByte(h, addr, <<255>>)
StepCheckWriteCall ==
  Stepping /\ \E addr \in StepAddrs, w \in StepWidths :
                \E value \in Values(w) : StepCheckWrite(addr, w, value)
ClearLastWriteInfoCall == Stepping /\ \E h \in Harts : ClearLastWriteInfo(h)
GetLastWriteNewValueCall == Stepping /\ \E h \in Harts : GetLastWriteNewValue(h)
GetLastWriteOldValueCall == Stepping /\ \E h \in Harts : GetLastWriteOldValue(h)
GetLastWriteOldValue2Call == Stepping /\ \E h \in Harts : GetLastWriteOldValue2(h)

NextSteps ==
  \/ LoadImage
  \/ PriorLr
  \/ StepWriteCall
  \/ StepWriteByteCall
  \/ StepCheckWriteCall
  \/ ClearLastWriteInfoCall
  \/ GetLastWriteNewValueCall
  \/ GetLastWriteOldValueCall
  \/ GetLastWriteOldValue2Call

SpecSteps == InitSteps /\ [][NextSteps]_vars

(***************************************************************************)
(* Stores, pokes, reservation calls and protection toggles in any order,   *)
(* up to MaxSteps of them, on the memory of InitSteps.                     *)
(***************************************************************************)
\* Addresses reserved: a word of the first page and a register.
FrameLrAddrs == {0, LastPage}
\* Stores seen by the reservation tracker: on the first word and next to it.
FrameStoreAddrs == {0, 4}
\* First page, register page, and the first address past the table.
FrameToggleAddrs == {0, LastPage, MemSize}

\* What a step that is no access leaves: the call, its result, the state it
\* found.
Stepped(c) ==
  /\ call' = c
  /\ ret' = Returned(NoValue)
  /\ before' = Snapshot
  /\ nops' = nops + 1
  /\ UNCHANGED <<masks, data, lastWriteData, ntoggles, pc, lrMutex, observed>>
  /\ UNCHANGED <<cfgVars, hartVars>>

\* Faulty variant: the poke is recorded as a store of the first hart.
StepPokeRecording(addr, w, value) ==
  LET r == poke(addr, w, value)
  IN /\ Stepping
     /\ Accessed(Call("poke", Free, addr, w, value), Status(r), r.data,
                 IF r.ok THEN Recorded(0, addr, w, value, LoadBytes(data, addr, w))
                 ELSE lastWriteData)

StepPoke(addr, w, value) ==
  LET r == poke(addr, w, value)
  IN /\ Stepping
     /\ Accessed(Call("poke", Free, addr, w, value), Status(r),
                 r.data, lastWriteData)

StepPokeByte(addr, value) ==
  LET r == pokeByte(addr, value)
  IN /\ Stepping
     /\ Accessed(Call("pokeByte", Free, addr, 1, value), Status(r),
                 r.data, lastWriteData)

StepMakeLr(h, addr, size) ==
  /\ Stepping
  /\ Stepped(Call("makeLr", h, addr, size, NoValue))
  /\ reservations' = makeLr(h, addr, size)
  /\ persisting' = PersistingAfterMakeLr(h, addr, size)
  /\ invalidated' = invalidated \ {h}
  /\ UNCHANGED attribs

StepInvalidateOtherHartLr(h, addr, storeSize) ==
  /\ Stepping
  /\ Stepped(Call("invalidateOtherHartLr", h, addr, storeSize, NoValue))
  /\ reservations' = invalidateOtherHartLr(h, addr, storeSize)
  /\ persisting' = PersistingAfterInvalidateOtherHartLr(h, addr, storeSize)
  /\ UNCHANGED <<invalidated, attribs>>

StepSetReadAccess(addr, flag) ==
  /\ Stepping
  /\ Stepped(Call("setReadAccess", Free, addr, 0, Flag(flag)))
  /\ attribs' = setReadAccess(addr, flag)
  /\ UNCHANGED <<reservations, persisting, invalidated>>

StepSetWriteAccess(addr, flag) ==
  /\ Stepping
  /\ Stepped(Call("setWriteAccess", Free, addr, 0, Flag(flag)))
  /\ attribs' = setWriteAccess(addr, flag)
  /\ UNCHANGED <<reservations, persisting, invalidated>>

StepSetExecAccess(addr, flag) ==
  /\ Stepping
  /\ Stepped(Call("setExecAccess", Free, addr, 0, Flag(flag)))
  /\ attribs' = setExecAccess(addr, flag)
  /\ UNCHANGED <<reservations, persisting, invalidated>>

StepPokeCall ==
  Stepping /\ \E addr \in StepAddrs, w \in StepWidths :
                \E value \in Values(w) : StepPoke(addr, w, value)
StepPokeByteCall ==
  Stepping /\ \E addr \in StepAddrs : StepPokeByte(addr, <<255>>)
StepMakeLrCall ==
  Stepping /\ \E h \in Harts, addr \in FrameLrAddrs : StepMakeLr(h, addr, 4)
StepInvalidateOtherHartLrCall ==
  Stepping /\ \E h \in Harts, addr \in FrameStoreAddrs :
                StepInvalidateOtherHartLr(h, addr, 4)
StepSetReadAccessCall ==
  Stepping /\ \E addr \in FrameToggleAddrs, flag \in BOOLEAN :
                StepSetReadAccess(addr, flag)
StepSetWriteAccessCall ==
  Stepping /\ \E addr \in FrameToggleAddrs, flag \in BOOLEAN :
                StepSetWriteAccess(addr, flag)
StepSetExecAccessCall ==
  Stepping /\ \E addr \in FrameToggleAddrs, flag \in BOOLEAN :
                StepSetExecAccess(addr, flag)

NextFrame ==
  \/ StepWriteCall
  \/ StepWriteByteCall
  \/ StepPokeCall
  \/ StepPokeByteCall
  \/ StepMakeLrCall
  \/ StepInvalidateOtherHartLrCall
  \/ StepSetReadAccessCall
  \/ StepSetWriteAccessCall
  \/ StepSetExecAccessCall

SpecFrame == InitSteps /\ [][NextFrame]_vars

(***************************************************************************)
(* Word stores of the harts running as threads. write and writeRegister    *)
(* hold no lock: each reads the bytes it is about to replace into          *)
(* prevValue_, then stores, then fills the rest of its record, and the     *)
(* steps of different harts interleave freely.                             *)
(***************************************************************************)
\* A plain word and a register.
RaceAddrs == {0, LastPage}

RaceStep(h, from, to) ==
  /\ pc[h] = from
  /\ pc' = [pc EXCEPT ![h] = to]
  /\ UNCHANGED <<attribs, masks, reservations, nops, ntoggles, lrMutex,
                 observed, persisting, invalidated>>
  /\ UNCHANGED <<cfgVars, csrVars>>

\* The tests of write pass, the value is masked for a register, and
\* prevValue_ is read from data_.
WriteLoad(h, addr, value) ==
  /\ RaceStep(h, "idle", "store")
  /\ write(h, addr, 4, value).ok
  /\ writing' = [writing EXCEPT ![h] =
                   [addr |-> addr,
                    value |-> IF getAttrib(addr).reg
                              THEN doRegisterMasking(addr, value) ELSE value]]
  /\ lastWriteData' = [lastWriteData EXCEPT
                         ![h].prevValue = ZeroExtend(LoadBytes(data, addr, 4))]
  /\ UNCHANGED <<data, stored, call, ret, before>>

\* The value is stored to data_.
WriteStore(h) ==
  /\ RaceStep(h, "store", "record")
  /\ data' = StoreBytes(data, writing[h].addr, writing[h].value)
  /\ stored' = Append(stored, [hart |-> h, addr |-> writing[h].addr,
                               overwrote |-> LoadBytes(data, writing[h].addr, 4)])
  /\ before' = IF stored = <<>> THEN Snapshot ELSE before
  /\ UNCHANGED <<lastWriteData, writing, call, ret>>

\* size_, addr_ and value_ of the record are assigned and write returns.
WriteRecord(h) ==
  /\ RaceStep(h, "record", "done")
  /\ lastWriteData' = [lastWriteData EXCEPT
                         ![h].size = 4,
                         ![h].addr = writing[h].addr,
                         ![h].value = ZeroExtend(writing[h].value)]
  /\ call' = Call("write", h, writing[h].addr, 4, writing[h].value)
  /\ ret' = Returned(NoValue)
  /\ UNCHANGED <<data, stored, writing, before>>

\* The image is loaded before the harts run.
RaceLoadImage == (\A h \in Harts : pc[h] = "idle") /\ LoadImage

WriteLoadCall ==
  \E h \in Harts, addr \in RaceAddrs : \E value \in Values(4) :
    WriteLoad(h, addr, value)

NextRace ==
  \/ RaceLoadImage
  \/ WriteLoadCall
  \/ \E h \in Harts : WriteStore(h)
  \/ \E h \in Harts : WriteRecord(h)

SpecRace == InitSteps /\ [][NextRace]_vars

(***************************************************************************)
(* The mhartstart CSR. finalizeCsrConfig ties the CSR of every hart to the *)
(* value held by hart 0 and registers two callbacks on the CSR of each     *)
(* hart: one run before a write or poke changes the value, one after. A    *)
(* CSR value is the set of its bits that are 1; bit h belongs to hart h.   *)
(***************************************************************************)
\* Reset values, write masks and poke masks the configuration may give.
ResetValues == {{}, {0}, {0, NumHarts}}
WriteMasks == {Bits, Harts, {1}}
PokeMasks == {Bits, {}}

\* Faulty variant: the value is written as given.
preMhartstartPlain(val) == val

\* The callback run before a write or poke: the value of hart 0's CSR is
\* or-ed into the value to be written.
preMhartstart(val) == val \cup mhartstart.value

\* The callback run after a write or poke: every hart whose bit is set in
\* the value is started.
postMhartstart(val) == [h \in Harts |-> started[h] \/ h \in val]

\* A write or poke of a CSR with the given mask: the callbacks before it,
\* the masked update of the value, the callbacks after it on the new value.
csrWrite(x, mask) ==
  LET val == preMhartstart(x)
      newVal == (val \cap mask) \cup (mhartstart.value \ mask)
  IN [value |-> newVal, started |-> postMhartstart(newVal)]

\* What a write or poke of mhartstart leaves.
CsrWritten(c, r) ==
  /\ call' = c
  /\ ret' = Returned(NoValue)
  /\ mhartstart' = [mhartstart EXCEPT !.value = r.value]
  /\ started' = r.started
  /\ hist' = [everSet |-> hist.everSet \cup r.value,
              everStarted |-> hist.everStarted \cup {h \in Harts : r.started[h]},
              value |-> mhartstart.value,
              started |-> started]
  /\ UNCHANGED <<attribs, masks, data, lastWriteData, before, nops, ntoggles>>
  /\ UNCHANGED lrVars
  /\ UNCHANGED <<cfgVars, raceVars>>

\* The configuration file gives mhartstart its reset value and masks,
\* before any hart runs.
ConfigureMhartstart(reset, mask, pokeMask) ==
  /\ call.op = "none"
  /\ call' = Call("configCsr", Free, 0, 0, reset)
  /\ ret' = Returned(NoValue)
  /\ mhartstart' = [value |-> reset, mask |-> mask, pokeMask |-> pokeMask]
  /\ hist' = [hist EXCEPT !.everSet = reset, !.value = reset]
  /\ UNCHANGED <<attribs, masks, data, lastWriteData, before, nops, ntoggles,
                 started>>
  /\ UNCHANGED lrVars
  /\ UNCHANGED <<cfgVars, raceVars>>

\* Hart h, which is running, writes x to mhartstart.
WriteMhartstart(h, x) ==
  /\ started[h]
  /\ CsrWritten(Call("writeMhartstart", h, 0, 0, x),
                csrWrite(x, mhartstart.mask))

\* x is poked into the mhartstart of hart h.
PokeMhartstart(h, x) ==
  /\ h \in Harts
  /\ CsrWritten(Call("pokeMhartstart", h, 0, 0, x),
                csrWrite(x, mhartstart.pokeMask))

ConfigureMhartstartCall ==
  \E reset \in ResetValues, mask \in WriteMasks, pokeMask \in PokeMasks :
    ConfigureMhartstart(reset, mask, pokeMask)
WriteMhartstartCall ==
  \E h \in Harts, x \in SUBSET Bits : WriteMhartstart(h, x)
PokeMhartstartCall ==
  \E h \in Harts, x \in SUBSET Bits : PokeMhartstart(h, x)

NextMhartstart ==
  \/ ConfigureMhartstartCall
  \/ WriteMhartstartCall
  \/ PokeMhartstartCall

SpecMhartstart == InitLr /\ [][NextMhartstart]_vars

(***************************************************************************)
(* The region configurator called in any order: up to MaxDefines window    *)
(* and mask definitions, then finishCcmConfig, with protection toggles in  *)
(* between; then mask lookups and one access. An exception ends the run.   *)
(***************************************************************************)
MaxDefines == 2
MaxMasks == 2
RegionArgs == 0 .. regionCount       \* the last one lies beyond the memory
OffsetArgs == {0, 4, PageSize}
SizeArgs == {4, PageSize, 2 * PageSize}
BlockOffsets == {0, 2}
RegisterIxs == 0 .. WordsPerPage     \* the last one lies in the next page
MaskArgs == {MaskValues[1], MaskValues[4]}

InitCfg ==
  /\ Constructed
  /\ attribs = [p \in Pages |-> ExternalPage]
  /\ regionConfigured = {}
  /\ cfg = [Unconfigured EXCEPT !.stage = "setup"]
  /\ thrown = NoException

Alive == thrown = NoException
Defining == Alive /\ cfg.stage = "setup" /\ cfg.defines < MaxDefines
Masking == Alive /\ cfg.stage = "setup" /\ cfg.masked < MaxMasks
Finished == Alive /\ cfg.stage = "done"

\* What a configurator call leaves.
Configuring(c, r, att, msk, rc, k) ==
  /\ call' = c
  /\ ret' = r
  /\ before' = Snapshot
  /\ attribs' = att
  /\ masks' = msk
  /\ regionConfigured' = rc
  /\ cfg' = k
  /\ UNCHANGED <<data, lastWriteData, nops, ntoggles, thrown>>
  /\ UNCHANGED lrVars
  /\ UNCHANGED hartVars

\* A window definition, as a call: the window's first address and its size.
DefineCall(op, region, offset, size) ==
  Call(op, Free, region * RegionSize + offset, size, NoValue)
Outcome(r) == IF r.ok THEN Returned(NoValue) ELSE Failed
Counted == [cfg EXCEPT !.defines = @ + 1]

DefineIccm(region, offset, size) ==
  LET r == defineIccm(attribs, region, offset, size)
  IN /\ Defining
     /\ Configuring(DefineCall("defineIccm", region, offset, size), Outcome(r),
                    r.attribs, masks, r.regionConfigured, Counted)

DefineDccm(region, offset, size) ==
  LET r == defineDccm(attribs, region, offset, size)
  IN /\ Defining
     /\ Configuring(DefineCall("defineDccm", region, offset, size), Outcome(r),
                    r.attribs, masks, r.regionConfigured, Counted)

DefineMemoryMappedRegisterRegion(region, offset, size) ==
  LET r == defineMemoryMappedRegisterRegion(attribs, region, offset, size)
  IN /\ Defining
     /\ Configuring(DefineCall("defineMemoryMappedRegisterRegion", region,
                               offset, size),
                    Outcome(r), r.attribs, masks, r.regionConfigured, Counted)

DefineMemoryMappedRegisterWriteMask(region, regionOffset, registerBlockOffset, registerIx, mask) ==
  LET r == defineMemoryMappedRegisterWriteMask(attribs, masks, region,
             regionOffset, registerBlockOffset, registerIx, mask)
  IN /\ Masking
     /\ Configuring(Call("defineMemoryMappedRegisterWriteMask", Free,
                         region * RegionSize + regionOffset
                           + registerBlockOffset + registerIx * 4,
                         4, mask),
                    Outcome(r), attribs, r.masks, regionConfigured,
                    [cfg EXCEPT !.masked = @ + 1])

FinishCcmConfig ==
  /\ Alive
  /\ cfg.stage = "setup"
  /\ Configuring(Call("finishCcmConfig", Free, 0, 0, NoValue),
                 Returned(NoValue), finishCcmConfig(attribs), masks,
                 regionConfigured,
                 [cfg EXCEPT !.stage = "done", !.finished = @ + 1])

\* masks_.at(pageIx) throws when the table has no slot for the page.
getMemoryMappedMaskThrows(addr) ==
  masks # <<>> /\ getPageIx(addr) >= Len(masks)

\* A mask lookup by the hart.
GetMemoryMappedMask(addr) ==
  /\ Finished
  /\ Running
  /\ nops' = nops + 1
  /\ call' = Call("getMemoryMappedMask", Free, addr, 4, NoValue)
  /\ before' = Snapshot
  /\ IF getMemoryMappedMaskThrows(addr)
     THEN ret' = Failed /\ thrown' = OutOfRangeException
     ELSE ret' = Returned(getMemoryMappedMask(addr)) /\ UNCHANGED thrown
  /\ UNCHANGED <<attribs, masks, data, lastWriteData, ntoggles,
                 regionConfigured, cfg>>
  /\ UNCHANGED lrVars
  /\ UNCHANGED hartVars

DefineIccmCall ==
  Defining /\ \E region \in RegionArgs, offset \in OffsetArgs, size \in SizeArgs :
                DefineIccm(region, offset, size)
DefineDccmCall ==
  Defining /\ \E region \in RegionArgs, offset \in OffsetArgs, size \in SizeArgs :
                DefineDccm(region, offset, size)
DefineMemoryMappedRegisterRegionCall ==
  Defining /\ \E region \in RegionArgs, offset \in OffsetArgs, size \in SizeArgs :
                DefineMemoryMappedRegisterRegion(region, offset, size)
DefineMemoryMappedRegisterWriteMaskCall ==
  Masking /\ \E region \in {0}, regionOffset \in {0, PageSize},
                 registerBlockOffset \in BlockOffsets,
                 registerIx \in RegisterIxs, mask \in MaskArgs :
                DefineMemoryMappedRegisterWriteMask(region, regionOffset,
                  registerBlockOffset, registerIx, mask)
GetMemoryMappedMaskCall ==
  Finished /\ Running /\ \E addr \in Addrs : GetMemoryMappedMask(addr)

\* Access to a page of the memory is taken away.
ProtectReadCall ==
  Alive /\ Halted /\ \E p \in Pages : SetReadAccess(p * PageSize, FALSE)
ProtectWriteCall ==
  Alive /\ Halted /\ \E p \in Pages : SetWriteAccess(p * PageSize, FALSE)
ProtectExecCall ==
  Alive /\ Halted /\ \E p \in Pages : SetExecAccess(p * PageSize, FALSE)

\* The word accesses of the first hart.
WordValue == [i \in 1 .. 4 |-> 85 + i]
ReadWordCall == Finished /\ Running /\ \E addr \in Addrs : Read(addr, 4)
CheckWriteWordCall ==
  Finished /\ Running /\ \E addr \in Addrs : CheckWrite(addr, 4, WordValue)
WriteWordCall ==
  Finished /\ Running /\ \E addr \in Addrs : Write(0, addr, 4, WordValue)

NextCfg ==
  \/ DefineIccmCall
  \/ DefineDccmCall
  \/ DefineMemoryMappedRegisterRegionCall
  \/ DefineMemoryMappedRegisterWriteMaskCall
  \/ FinishCcmConfig
  \/ ProtectReadCall
  \/ ProtectWriteCall
  \/ ProtectExecCall
  \/ GetMemoryMappedMaskCall
  \/ ReadWordCall
  \/ Finished /\ ReadInstWordCall
  \/ CheckWriteWordCall
  \/ WriteWordCall

SpecCfg == InitCfg /\ [][NextCfg]_vars

(***************************************************************************)
(* applyMemoryConfig: the ICCM, DCCM and PIC sections of the configuration *)
(* file are applied in turn, then finishCcmConfig is called, then the      *)
(* fetch and data windows of the memmap section are applied. Each step     *)
(* draws its section of the file.                                          *)
(***************************************************************************)
\* A section of the file: absent, lacking one of its entries, or complete.
Absent == [kind |-> "absent"]
Lacking(tag) == [kind |-> "lacking", tag |-> tag]
CcmEntry(region, offset, size) ==
  [kind |-> "entry", region |-> region, offset |-> offset, size |-> size]
CcmSections ==
  {Absent, Lacking("size")}
    \cup {CcmEntry(region, offset, size) :
            region \in RegionArgs, offset \in OffsetArgs, size \in SizeArgs}

\* The PIC section: region, offset, size, total_int, int_words and the
\* offsets of mpiccfg, meipl, meip, meie, meigwctrl, meigwclr (-1: no entry).
PicEntry(region, offset, size, offsets) ==
  [kind |-> "entry", region |-> region, offset |-> offset, size |-> size,
   total_int |-> 1, int_words |-> 1, offsets |-> offsets]
NoOffsets == <<-1, -1, -1, -1, -1, -1>>
SomeOffsets == <<0, 0, 4, 4, PageSize, -1>>
\* Four groups on four words; meipl alone, on the second word.
FourOffsets == <<0, 0, -1, 4, PageSize, -1>>
OneOffset == <<-1, 0, -1, -1, -1, -1>>
PicSections ==
  {Absent, Lacking("region"), Lacking("total_int")}
    \cup {PicEntry(region, offset, size, offsets) :
            region \in {0}, offset \in {0, PageSize},
            size \in {4, PageSize, 2 * PageSize},
            offsets \in {NoOffsets, SomeOffsets, FourOffsets, OneOffset}}
\* A complete PIC section where the named entry is missing.
PicLacking(tag) == PicEntry(0, 0, PageSize, SomeOffsets)

\* The masks, counts and index adjustments of the six register groups.
picMasks == <<MaskValues[1], MaskValues[2], Zeros(4), MaskValues[1],
              (<<3, 0, 0, 0>>), Zeros(4)>>
picCounts(pic) ==
  <<1, pic.total_int, pic.int_words, pic.total_int, pic.total_int,
    pic.total_int>>
picAdjust == <<0, 4, 0, 4, 4, 4>>

\* The mask definitions applyPicConfig makes after it defined the region, in
\* order: zero for every word of the region, then the registers of each
\* group that has an offset entry.
RegisterMask(blockOffset, ix, mask) ==
  [registerBlockOffset |-> blockOffset, registerIx |-> ix, mask |-> mask]
\* Faulty variant: no register is given a zero mask first.
NoZeroedRegisters(pic) == <<>>

ZeroedRegisters(pic) ==
  [i \in 1 .. (pic.size \div 4) |-> RegisterMask(0, i - 1, Zeros(4))]
RECURSIVE NamedRegisters(_, _)
NamedRegisters(pic, i) ==
  IF i > 6 THEN <<>>
  ELSE IF pic.offsets[i] < 0 THEN NamedRegisters(pic, i + 1)
  ELSE [regIx \in 1 .. picCounts(pic)[i] |->
          RegisterMask(pic.offsets[i] + picAdjust[i], regIx - 1, picMasks[i])]
         \o NamedRegisters(pic, i + 1)

\* The mask table and the number of failed definitions after the
\* definitions regs[i], regs[i + 1], ... were made on the table msk.
RECURSIVE defineRegisters(_, _, _, _, _)
defineRegisters(att, msk, pic, regs, i) ==
  IF i > Len(regs) THEN [masks |-> msk, errors |-> 0]
  ELSE LET r == defineMemoryMappedRegisterWriteMask(att, msk, pic.region,
                  pic.offset, regs[i].registerBlockOffset,
                  regs[i].registerIx, regs[i].mask)
           rest == defineRegisters(att, r.masks, pic, regs, i + 1)
       IN [masks |-> rest.masks,
           errors |-> rest.errors + (IF r.ok THEN 0 ELSE 1)]

\* What applying a section leaves: its status, the exception that left it,
\* the attribute table, the mask table and the configured regions.
Applied(ok, exception, att, msk, rc) ==
  [ok |-> ok, thrown |-> exception, attribs |-> att, masks |-> msk,
   regionConfigured |-> rc]

applyIccmConfig(section) ==
  IF section.kind = "absent"
  THEN Applied(TRUE, NoException, attribs, masks, regionConfigured)
  ELSE IF section.kind = "lacking"
  THEN Applied(FALSE, NoException, attribs, masks, regionConfigured)
  ELSE LET r == defineIccm(attribs, section.region, section.offset,
                           section.size)
       IN Applied(r.ok, NoException, r.attribs, masks, r.regionConfigured)

applyDccmConfig(section) ==
  IF section.kind = "absent"
  THEN Applied(TRUE, NoException, attribs, masks, regionConfigured)
  ELSE IF section.kind = "lacking"
  THEN Applied(FALSE, NoException, attribs, masks, regionConfigured)
  ELSE LET r == defineDccm(attribs, section.region, section.offset,
                           section.size)
       IN Applied(r.ok, NoException, r.attribs, masks, r.regionConfigured)

\* pic.at(tag) throws when the section has no such entry: before the region
\* is defined for region, size and offset, after it for total_int and
\* int_words.
applyPicConfig(section) ==
  IF section.kind = "absent"
  THEN Applied(TRUE, NoException, attribs, masks, regionConfigured)
  ELSE IF section.kind = "lacking" /\ section.tag \in {"region", "size", "offset"}
  THEN Applied(FALSE, OutOfRangeException, attribs, masks, regionConfigured)
  ELSE LET pic == IF section.kind = "lacking" THEN PicLacking(section.tag)
                  ELSE section
           r == defineMemoryMappedRegisterRegion(attribs, pic.region,
                                                 pic.offset, pic.size)
           m == defineRegisters(r.attribs, masks, pic,
                                ZeroedRegisters(pic) \o NamedRegisters(pic, 1), 1)
       IN IF ~r.ok
          THEN Applied(FALSE, NoException, attribs, masks, regionConfigured)
          ELSE IF section.kind = "lacking"
          THEN Applied(FALSE, OutOfRangeException, r.attribs, masks,
                       r.regionConfigured)
          ELSE Applied(m.errors = 0, NoException, r.attribs, m.masks,
                       r.regionConfigured)

\* The pages that the windows, pairs of a first and a last address, cover.
Covered(windows) ==
  {p \in Pages : \E w \in windows :
                   w[1] <= p * PageSize + PageSize - 1 /\ p * PageSize <= w[2]}
\* Fetch is allowed in the windows only.
configMemoryFetch(att, windows) ==
  [p \in Pages |-> IF p \in Covered(windows) THEN att[p]
                   ELSE [att[p] EXCEPT !.exec = FALSE]]
\* Data access is allowed in the windows only.
configMemoryDataAccess(att, windows) ==
  [p \in Pages |-> IF p \in Covered(windows) THEN att[p]
                   ELSE [att[p] EXCEPT !.read = FALSE, !.write = FALSE]]

\* The windows of a memmap entry; no entry and an empty one apply nothing.
WindowLists == {{}, {<<0, PageSize - 1>>}, {<<PageSize, MemSize - 1>>}}

InitApply ==
  /\ Constructed
  /\ attribs = [p \in Pages |-> ExternalPage]
  /\ regionConfigured = {}
  /\ cfg = Unconfigured
  /\ thrown = NoException

At(stage) == Alive /\ cfg.stage = stage

\* A step of applyMemoryConfig that applies a section: it moves to the next
\* stage unless an exception leaves it, and counts a failure.
Applying(op, section, r, next) ==
  /\ call' = Call(op, Free, 0, 0, section)
  /\ ret' = Outcome(r)
  /\ before' = Snapshot
  /\ attribs' = r.attribs
  /\ masks' = r.masks
  /\ regionConfigured' = r.regionConfigured
  /\ thrown' = r.thrown
  /\ cfg' = [cfg EXCEPT !.stage = IF r.thrown = NoException THEN next ELSE "left",
                        !.errors = @ + (IF r.ok THEN 0 ELSE 1),
                        !.attempted = @ \cup {cfg.stage}]
  /\ UNCHANGED <<data, lastWriteData, nops, ntoggles>>
  /\ UNCHANGED lrVars
  /\ UNCHANGED hartVars

ApplyIccmConfig(section) ==
  /\ At("iccm")
  /\ Applying("applyIccmConfig", section, applyIccmConfig(section), "dccm")

ApplyDccmConfig(section) ==
  /\ At("dccm")
  /\ Applying("applyDccmConfig", section, applyDccmConfig(section), "pic")

ApplyPicConfig(section) ==
  /\ At("pic")
  /\ Applying("applyPicConfig", section, applyPicConfig(section), "finish")

ApplyFinishCcmConfig ==
  /\ At("finish")
  /\ Configuring(Call("finishCcmConfig", Free, 0, 0, NoValue),
                 Returned(NoValue), finishCcmConfig(attribs), masks,
                 regionConfigured,
                 [cfg EXCEPT !.stage = "inst", !.finished = @ + 1])

ApplyInstMemConfig(windows) ==
  /\ At("inst")
  /\ Configuring(Call("applyInstMemConfig", Free, 0, 0, NoValue),
                 Returned(NoValue),
                 IF windows = {} THEN attribs
                 ELSE configMemoryFetch(attribs, windows),
                 masks, regionConfigured,
                 [cfg EXCEPT !.stage = "data",
                             !.windows = @ + Cardinality(windows)])

ApplyDataMemConfig(windows) ==
  /\ At("data")
  /\ Configuring(Call("applyDataMemConfig", Free, 0, 0, NoValue),
                 Returned(NoValue),
                 IF windows = {} THEN attribs
                 ELSE configMemoryDataAccess(attribs, windows),
                 masks, regionConfigured,
                 [cfg EXCEPT !.stage = "done",
                             !.windows = @ + Cardinality(windows)])

ApplyIccmConfigStep ==
  At("iccm") /\ \E section \in CcmSections : ApplyIccmConfig(section)
ApplyDccmConfigStep ==
  At("dccm") /\ \E section \in CcmSections : ApplyDccmConfig(section)
ApplyPicConfigStep ==
  At("pic") /\ \E section \in PicSections : ApplyPicConfig(section)
ApplyInstMemConfigStep ==
  At("inst") /\ \E windows \in WindowLists : ApplyInstMemConfig(windows)
ApplyDataMemConfigStep ==
  At("data") /\ \E windows \in WindowLists : ApplyDataMemConfig(windows)

NextApply ==
  \/ ApplyIccmConfigStep
  \/ ApplyDccmConfigStep
  \/ ApplyPicConfigStep
  \/ ApplyFinishCcmConfig
  \/ ApplyInstMemConfigStep
  \/ ApplyDataMemConfigStep

SpecApply == InitApply /\ [][NextApply]_vars

(***************************************************************************)
(* The operations that take a hart id, called with any id up to the hart   *)
(* count itself: a write or a query of the last write, among reservation   *)
(* calls on the first word. An exception ends the run.                     *)
(***************************************************************************)
HartIds == 0 .. NumHarts             \* the last one is not below the hart count

\* lastWriteData_.at(localHartId) and reservations_.at(localHartId) throw
\* when the id is not below the size that setHartCount gave the vectors.
atThrows(h) == h >= NumHarts

\* write and writeByte reach lastWriteData_.at when every test before it
\* passed; none of the tests looks at the hart.
writeReachesAt(addr, w, value) == write(0, addr, w, value).ok
writeByteReachesAt(addr, value) == writeByte(0, addr, value).ok

\* What a call leaves that an exception left: nothing but the exception.
Raising(c) ==
  /\ call' = c
  /\ ret' = Failed
  /\ before' = Snapshot
  /\ thrown' = OutOfRangeException
  /\ nops' = nops + 1
  /\ UNCHANGED <<attribs, masks, data, lastWriteData, ntoggles,
                 regionConfigured, cfg>>
  /\ UNCHANGED lrVars
  /\ UNCHANGED hartVars

HartWrite(h, addr, w, value) ==
  IF atThrows(h) /\ writeReachesAt(addr, w, value)
  THEN Raising(Call("write", h, addr, w, value))
  ELSE StepWrite(h, addr, w, value)

HartWriteByte(h, addr, value) ==
  IF atThrows(h) /\ writeByteReachesAt(addr, value)
  THEN Raising(Call("writeByte", h, addr, 1, value))
  ELSE StepWriteByte(h, addr, value)

HartClearLastWriteInfo(h) ==
  IF atThrows(h) THEN Raising(Call("clearLastWriteInfo", h, 0, 0, NoValue))
  ELSE ClearLastWriteInfo(h)

HartGetLastWriteNewValue(h) ==
  IF atThrows(h)
  THEN Raising(Call("getLastWriteNewValue", h, ArgAddr, 0, ArgValue))
  ELSE GetLastWriteNewValue(h)

HartGetLastWriteOldValue(h) ==
  IF atThrows(h)
  THEN Raising(Call("getLastWriteOldValue", h, ArgAddr, 0, ArgValue))
  ELSE GetLastWriteOldValue(h)

HartGetLastWriteOldValue2(h) ==
  IF atThrows(h)
  THEN Raising(Call("getLastWriteOldValue2", h, 0, 0, ArgValue))
  ELSE GetLastWriteOldValue2(h)

HartMakeLr(h) ==
  IF atThrows(h) THEN Raising(Call("makeLr", h, 0, 4, NoValue))
  ELSE MakeLr(h, 0, 4)

HartHasLr(h) ==
  IF atThrows(h) THEN Raising(Call("hasLr", h, 0, 0, NoValue))
  ELSE HasLr(h, 0)

HartInvalidateLr(h) ==
  IF atThrows(h) THEN Raising(Call("invalidateLr", h, 0, 0, NoValue))
  ELSE InvalidateLr(h)

Called == Alive /\ Running

HartWriteCall ==
  Called /\ \E h \in HartIds, addr \in StepAddrs, w \in StepWidths :
              \E value \in Values(w) : HartWrite(h, addr, w, value)
HartWriteByteCall ==
  Called /\ \E h \in HartIds, addr \in StepAddrs : HartWriteByte(h, addr, <<255>>)
HartClearLastWriteInfoCall ==
  Called /\ \E h \in HartIds : HartClearLastWriteInfo(h)
HartGetLastWriteNewValueCall ==
  Called /\ \E h \in HartIds : HartGetLastWriteNewValue(h)
HartGetLastWriteOldValueCall ==
  Called /\ \E h \in HartIds : HartGetLastWriteOldValue(h)
HartGetLastWriteOldValue2Call ==
  Called /\ \E h \in HartIds : HartGetLastWriteOldValue2(h)
HartMakeLrCall == Called /\ \E h \in HartIds : HartMakeLr(h)
HartHasLrCall == Called /\ \E h \in HartIds : HartHasLr(h)
HartInvalidateLrCall == Called /\ \E h \in HartIds : HartInvalidateLr(h)

NextHarts ==
  \/ HartWriteCall
  \/ HartWriteByteCall
  \/ HartClearLastWriteInfoCall
  \/ HartGetLastWriteNewValueCall
  \/ HartGetLastWriteOldValueCall
  \/ HartGetLastWriteOldValue2Call
  \/ HartMakeLrCall
  \/ HartHasLrCall
  \/ HartInvalidateLrCall

SpecHarts == InitSteps /\ [][NextHarts]_vars

(***************************************************************************)
(* Properties of the access operations, stated on the state an operation   *)
(* leaves: call and ret name the operation and its result, before holds    *)
(* what it found. A read is a function of the state, so "the read executed *)
(* next" is read applied to the state the write or poke left.              *)
(***************************************************************************)
TheAttrib == getAttrib(call.addr)
\* The page holding the last byte of the access.
LastAttrib == getAttrib(call.addr + call.size - 1)
\* The access is misaligned and its first and last bytes lie in different pages.
Spans ==
  /\ call.addr % call.size # 0
  /\ getPageIx(call.addr) # getPageIx(call.addr + call.size - 1)
\* The write mask of the register word at call.addr.
WriteMask ==
  IF masks = <<>> THEN AllOnes
  ELSE IF masks[getPageIx(call.addr) + 1] = <<>> THEN AllOnes
  ELSE masks[getPageIx(call.addr) + 1][((call.addr % PageSize) \div 4) + 1]
StoredWord == LoadBytes(data, call.addr, 4)

\* C1 as stated: write to any address of a mapped, writable, non-register
\* page succeeds, and a read of the same width at that address executed next
\* succeeds and returns the value written.
C1_AsStated ==
  (/\ call.op = "write"
   /\ isMapped(TheAttrib) /\ TheAttrib.write /\ ~TheAttrib.reg)
  => /\ ret.ok
     /\ read(call.addr, call.size) = Returned(call.value)

\* C1 amended: the round trip holds when the page is also readable and, if
\* the access is misaligned and spans two pages, the page of its last byte is
\* writable and readable and has the same DCCM and register flags.
C1_RoundTrip ==
  (/\ call.op = "write"
   /\ TheAttrib.write /\ TheAttrib.read /\ ~TheAttrib.reg
   /\ Spans => /\ LastAttrib.write /\ LastAttrib.read
               /\ LastAttrib.dccm = TheAttrib.dccm
               /\ LastAttrib.reg = TheAttrib.reg)
  => /\ ret.ok
     /\ read(call.addr, call.size) = Returned(call.value)

\* An 8-byte write spanning two pages succeeded and reads back.
C1_Witness ==
  /\ call.op = "write" /\ call.size = 8 /\ Spans
  /\ ret.ok
  /\ before.data # data
  /\ read(call.addr, call.size) = Returned(call.value)

\* C2 as stated: writeWord to a word-aligned address of a register page
\* succeeds, the word stored is value & mask, and the next readWord returns it.
C2_AsStated ==
  (/\ call.op = "write" /\ call.size = 4 /\ call.addr % 4 = 0
   /\ TheAttrib.reg)
  => /\ ret.ok
     /\ StoredWord = AndBytes(call.value, WriteMask)
     /\ read(call.addr, 4) = Returned(AndBytes(call.value, WriteMask))

\* C2 amended: on a register page that is writable, writeWord to a
\* word-aligned address succeeds and stores value & mask whatever the word
\* held; when the page is also readable the next readWord returns that word,
\* unmasked.
C2_MaskedRegisterWrite ==
  (/\ call.op = "write" /\ call.size = 4 /\ call.addr % 4 = 0
   /\ TheAttrib.reg /\ TheAttrib.write)
  => /\ ret.ok
     /\ StoredWord = AndBytes(call.value, WriteMask)
     /\ TheAttrib.read =>
          read(call.addr, 4) = Returned(AndBytes(call.value, WriteMask))

\* 0xFF was written to a register with mask 0x1 over a non-zero word: the
\* word holds 0x1.
C2_Witness ==
  /\ call.op = "write" /\ call.size = 4 /\ TheAttrib.reg /\ ret.ok
  /\ call.value = <<255, 0, 0, 0>>
  /\ WriteMask = <<1, 0, 0, 0>>
  /\ LoadBytes(before.data, call.addr, 4) # Zeros(4)
  /\ StoredWord = <<1, 0, 0, 0>>
  /\ read(call.addr, 4) = Returned(<<1, 0, 0, 0>>)

AccessOps == {"read", "readByte", "readInstHalfWord", "readInstWord",
              "checkWrite", "write", "writeByte", "poke", "pokeByte"}

\* C9: an access operation that returns false leaves every byte of memory
\* and every hart's last-write record as they were before the call.
C9_FailedAccessNoSideEffect ==
  (call.op \in AccessOps /\ ~ret.ok)
  => /\ data = before.data
     /\ lastWriteData = before.lastWriteData

\* A write by a hart failed on a memory that holds a last-write record of
\* that hart and non-zero bytes at the address.
C9_Witness ==
  /\ call.op = "write" /\ ~ret.ok
  /\ call.addr + call.size <= MemSize
  /\ before.lastWriteData[call.hart].size # 0
  /\ LoadBytes(before.data, call.addr, call.size) # Zeros(call.size)
  /\ TheAttrib.write

\* C10: checkWrite returns true exactly when write with the same address and
\* value would, for every hart, and then hands back the value write would
\* store.
C10_CheckWriteIsDryRun ==
  call.op = "checkWrite"
  => \A h \in Harts :
       LET w == write(h, call.addr, call.size, call.value)
       IN /\ ret.ok = w.ok
          /\ ret.ok => ret.value = LoadBytes(w.data, call.addr, call.size)

\* checkWrite handed back a value masked to something else than was given.
C10_Witness ==
  /\ call.op = "checkWrite" /\ ret.ok
  /\ TheAttrib.reg
  /\ ret.value # call.value
  /\ ret.value = AndBytes(call.value, WriteMask)

(***************************************************************************)
(* Properties of the reservations.                                         *)
(***************************************************************************)
\* C4: of the harts that reserved the same word and each executed a
\* store-conditional, at most one saw hasLr true.
C4_OneScSucceeds == Cardinality({h \in Harts : observed[h]}) <= 1

\* Every hart has finished its store-conditional; one succeeded and stored,
\* the others failed although they had reserved the word.
C4_Witness ==
  /\ \A h \in Harts : pc[h] = "done"
  /\ Cardinality({h \in Harts : observed[h]}) = 1
  /\ \E h \in Harts : observed[h] /\ lastWriteData[h].size # 0
  /\ \E h \in Harts : ~observed[h] /\ reservations[h].size # 0

\* C5 as stated: after makeLr(h, a, s), hasLr(h, a) is true and stays true
\* while there is no invalidateLr(h), no later makeLr(h, a', ..) with a' # a
\* and no invalidateOtherHartLr(g, x, n), g # h, with [x, x+n) overlapping
\* [a, a+s).
C5_AsStated == \A t \in persisting : hasLr(t.hart, t.addr)

\* C5 amended: the same, when moreover no later makeLr(h, a, s') has s' # s.
C5_ReservationPersists ==
  \A t \in persisting : ~t.resized => hasLr(t.hart, t.addr)

\* Another hart stored to the bytes right after a reservation, and the
\* reservation made two calls earlier or more is still held.
C5_Witness ==
  /\ call.op = "invalidateOtherHartLr"
  /\ \E t \in persisting :
       /\ ~t.resized
       /\ t.hart # call.hart
       /\ call.addr = t.addr + t.size
       /\ before.reservations[t.hart].valid
       /\ hasLr(t.hart, t.addr)

\* Bytes of a reservation's interval [res.addr, res.addr + res.size).
Reserved(res) == {b \in 0 .. (res.addr + res.size - 1) : res.addr <= b}
\* Bytes of the interval [addr, addr + storeSize) of the call.
Stored == {b \in 0 .. (call.addr + call.size - 1) : call.addr <= b}

\* C6: invalidateOtherHartLr(h, addr, storeSize) makes the reservation of
\* every hart g # h invalid when its interval intersects
\* [addr, addr + storeSize), and leaves it as it was when it does not.
C6_InvalidatesOverlapping ==
  call.op = "invalidateOtherHartLr"
  => \A g \in Harts \ {call.hart} :
       IF Reserved(before.reservations[g]) \cap Stored # {}
       THEN ~reservations[g].valid
       ELSE reservations[g] = before.reservations[g]

\* A store below a valid reservation reached into its first byte and
\* invalidated it.
C6_Witness ==
  /\ call.op = "invalidateOtherHartLr"
  /\ \E g \in Harts \ {call.hart} :
       /\ before.reservations[g].valid
       /\ call.addr < before.reservations[g].addr
       /\ call.addr + call.size = before.reservations[g].addr + 1
       /\ ~reservations[g].valid

\* C7: hasLr(h, addr) is true iff the reservation of h is valid and its
\* address is addr; for another address inside the reserved interval it is
\* false.
C7_HasLrExactAddress ==
  call.op = "hasLr"
  => LET res == reservations[call.hart]
     IN /\ ret.ok <=> (res.valid /\ res.addr = call.addr)
        /\ (call.addr \in Reserved(res) /\ call.addr # res.addr) => ~ret.ok

\* hasLr returned false for an address inside a valid reservation.
C7_Witness ==
  /\ call.op = "hasLr"
  /\ reservations[call.hart].valid
  /\ call.addr \in Reserved(reservations[call.hart])
  /\ call.addr # reservations[call.hart].addr
  /\ ~ret.ok

\* C8: after invalidateLr(h), hasLr(h, a) is false for every address until h
\* calls makeLr, and invalidateLr(h) leaves the reservations of the other
\* harts unchanged.
C8_InvalidateLr ==
  /\ \A h \in invalidated : \A a \in StoreAddrs : ~hasLr(h, a)
  /\ call.op = "invalidateLr"
     => \A g \in Harts \ {call.hart} :
          reservations[g] = before.reservations[g]

\* A hart invalidated a reservation it held while another hart held one,
\* which is still valid.
C8_Witness ==
  /\ call.op = "invalidateLr"
  /\ call.hart \in invalidated
  /\ before.reservations[call.hart].valid
  /\ ~hasLr(call.hart, reservations[call.hart].addr)
  /\ \E g \in Harts \ {call.hart} : reservations[g].valid

(***************************************************************************)
(* Properties of the last-write records and of the dry run.                *)
(***************************************************************************)
WriteOps == {"write", "writeByte"}
\* The last call was a write that succeeded.
Wrote == call.op \in WriteOps /\ ret.ok
\* The value a successful write stored: masked for a register word.
StoredValue ==
  IF TheAttrib.reg THEN AndBytes(call.value, WriteMask) ELSE call.value
\* What the bytes written held before the call.
PreviousValue == LoadBytes(before.data, call.addr, call.size)

\* C11: checkWrite, successful or not, leaves memory contents, page
\* attributes, every hart's last-write record and every hart's reservation
\* unchanged.
C11_CheckWriteFrame ==
  call.op = "checkWrite"
  => /\ data = before.data
     /\ attribs = before.attribs
     /\ masks = before.masks
     /\ lastWriteData = before.lastWriteData
     /\ reservations = before.reservations

\* checkWrite succeeded and masked its value on a memory holding an image, a
\* last-write record and a reservation.
C11_Witness ==
  /\ call.op = "checkWrite" /\ ret.ok
  /\ ret.value # call.value
  /\ LoadBytes(data, call.addr, call.size) # ret.value
  /\ \E h \in Harts : lastWriteData[h].size # 0
  /\ \E h \in Harts : reservations[h].valid

\* The lifecycle of a hart's last-write record between the calls that end
\* it: a call that is neither a successful write nor a clear by hart h
\* leaves what getLastWriteNewValue reports for h as it was, and the query
\* returns what it reports.
LastWriteKept ==
  /\ \A h \in Harts :
       (/\ call.op # "none"
        /\ ~(Wrote /\ call.hart = h)
        /\ ~(call.op = "clearLastWriteInfo" /\ call.hart = h))
       => getLastWriteNewValue(h, ArgAddr, ArgValue)
            = NewValueOf(before.lastWriteData[h], ArgAddr, ArgValue)
  /\ call.op = "getLastWriteNewValue"
     => ret = getLastWriteNewValue(call.hart, call.addr, call.value)

\* C12 as stated: after clearLastWriteInfo(h) and until the next successful
\* write of h, getLastWriteNewValue returns 0 and leaves addr and value
\* unmodified; after a successful write of width w of v at a by h it returns
\* w and sets addr = a, value = v.
C12_AsStated ==
  /\ LastWriteKept
  /\ call.op = "clearLastWriteInfo"
     => getLastWriteNewValue(call.hart, ArgAddr, ArgValue)
          = Reported(0, ArgAddr, ArgValue)
  /\ Wrote
     => getLastWriteNewValue(call.hart, ArgAddr, ArgValue)
          = Reported(call.size, call.addr, ZeroExtend(call.value))

\* C12 amended: the same, with value set to the value stored, which for a
\* register word is v & mask.
C12_LastWriteLifecycle ==
  /\ LastWriteKept
  /\ call.op = "clearLastWriteInfo"
     => getLastWriteNewValue(call.hart, ArgAddr, ArgValue)
          = Reported(0, ArgAddr, ArgValue)
  /\ Wrote
     => getLastWriteNewValue(call.hart, ArgAddr, ArgValue)
          = Reported(call.size, call.addr, ZeroExtend(StoredValue))

\* A hart wrote, cleared its record, and the query returned 0 without
\* touching its arguments although the record still holds the write.
C12_Witness ==
  /\ call.op = "getLastWriteNewValue"
  /\ ret = Reported(0, ArgAddr, ArgValue)
  /\ lastWriteData[call.hart].value # Zeros(8)
  /\ lastWriteData[call.hart].value # ArgValue

\* C13: a write, register write or clearLastWriteInfo by hart g leaves the
\* last-write record of every other hart unchanged.
C13_LastWritePerHart ==
  call.op \in WriteOps \cup {"clearLastWriteInfo"}
  => \A h \in Harts \ {call.hart} :
       lastWriteData[h] = before.lastWriteData[h]

\* A hart wrote a register while another hart's record held an earlier
\* write, which it still holds.
C13_Witness ==
  /\ call.op = "write" /\ ret.ok /\ TheAttrib.reg
  /\ \E h \in Harts \ {call.hart} :
       /\ before.lastWriteData[h].size # 0
       /\ lastWriteData[h] = before.lastWriteData[h]
       /\ lastWriteData[h] # lastWriteData[call.hart]

\* C14 as stated: after a successful write by h of v at a over content p, the
\* three-argument getLastWriteOldValue returns the write size and sets
\* addr = a and value = p.
C14_AsStated ==
  Wrote
  => getLastWriteOldValue(call.hart, ArgAddr, ArgValue)
       = Reported(call.size, call.addr, ZeroExtend(PreviousValue))

(***************************************************************************)
(* Properties of the access checks.                                        *)
(***************************************************************************)
DataReads == {"read", "readByte"}
DataWrites == {"write", "writeByte", "checkWrite"}
Fetches == {"readInstHalfWord", "readInstWord"}
Toggles == {"setReadAccess", "setWriteAccess", "setExecAccess"}

\* Each access kind succeeds only on a page with its permission.
PermissionNeeded ==
  /\ (call.op \in DataReads /\ ret.ok) => TheAttrib.read
  /\ (call.op \in DataWrites /\ ret.ok) => TheAttrib.write
  /\ (call.op \in Fetches /\ ret.ok) => TheAttrib.exec

C16_DataCrossing ==
  /\ (call.op = "read" /\ Spans /\ ret.ok)
     => /\ LastAttrib.read
        /\ LastAttrib.dccm = TheAttrib.dccm
        /\ LastAttrib.reg = TheAttrib.reg
  /\ (call.op = "write" /\ Spans /\ ret.ok)
     => /\ LastAttrib.write
        /\ LastAttrib.dccm = TheAttrib.dccm
        /\ LastAttrib.reg = TheAttrib.reg
  /\ (/\ call.op \in {"read", "write"} /\ call.size > 1
      /\ call.addr % PageSize = PageSize - 1
      /\ TheAttrib.dccm /\ isExternal(LastAttrib))
     => ~ret.ok

\* A 2-byte write from the last byte of a DCCM page into an external page
\* failed although both pages are readable and writable.
C16_Witness ==
  /\ call.op = "write" /\ call.size = 2
  /\ call.addr % PageSize = PageSize - 1
  /\ TheAttrib = DccmPage /\ LastAttrib = ExternalPage
  /\ ~ret.ok

\* C17: a misaligned fetch spanning two pages succeeds only if the second
\* page is executable and has the ICCM flag of the first; a readInstHalfWord
\* at an even address of an executable page succeeds.
C17_FetchCrossing ==
  /\ (call.op \in Fetches /\ Spans /\ ret.ok)
     => /\ LastAttrib.exec
        /\ LastAttrib.iccm = TheAttrib.iccm
  /\ (call.op = "readInstHalfWord" /\ call.addr % 2 = 0 /\ TheAttrib.exec)
     => ret.ok

\* A word fetch from the last half-word of an external page into an ICCM
\* page failed although both pages are executable.
C17_Witness ==
  /\ call.op = "readInstWord"
  /\ call.addr % PageSize = PageSize - 2
  /\ TheAttrib = ExternalPage /\ LastAttrib = IccmPage
  /\ ~ret.ok

\* C18: a read, write, checkWrite or poke of 1, 2 or 8 bytes that starts in
\* a register page fails.
C18_RegisterWordOnly ==
  (/\ call.op \in {"read", "readByte", "write", "writeByte", "checkWrite",
                    "poke", "pokeByte"}
   /\ call.size \in {1, 2, 8}
   /\ TheAttrib.reg)
  => ~ret.ok

\* pokeByte failed on a mapped register page.
C18_Witness ==
  /\ call.op = "pokeByte"
  /\ TheAttrib = RegisterPage
  /\ ~ret.ok

\* The four bytes of the access lie in one register page.
InRegisterPage ==
  /\ call.size = 4
  /\ TheAttrib.reg
  /\ getPageIx(call.addr) = getPageIx(call.addr + 3)

\* C19 as stated: a 4-byte write or checkWrite at a non-word-aligned address
\* of a register page fails, whereas a 4-byte read at a non-word-aligned
\* address inside one readable register page succeeds.
C19_AsStated ==
  /\ (call.op \in {"write", "checkWrite"} /\ call.size = 4
      /\ TheAttrib.reg /\ call.addr % 4 # 0)
     => ~ret.ok
  /\ (call.op = "read" /\ InRegisterPage /\ TheAttrib.read
      /\ call.addr % 4 # 0)
     => ret.ok

\* C19 amended: a 4-byte read, write or checkWrite at a non-word-aligned
\* address of a register page fails.
C19_UnalignedRegisterAccess ==
  (/\ call.op \in {"read", "write", "checkWrite"} /\ call.size = 4
   /\ TheAttrib.reg /\ call.addr % 4 # 0)
  => ~ret.ok

\* A 4-byte read inside one readable register page failed for its alignment.
C19_Witness ==
  /\ call.op = "read" /\ InRegisterPage /\ TheAttrib.read
  /\ call.addr % 4 # 0
  /\ ~ret.ok

OutOfRange == getPageIx(call.addr) >= NumPages

\* C20: an address whose page index is not in the attribute table has no
\* access flag; read, write, checkWrite, poke and the fetches starting there
\* fail, and the protection toggles on it change nothing.
C20_OutOfRange ==
  OutOfRange
  => /\ getAttrib(call.addr) = NoAccess
     /\ call.op \in {"read", "write", "checkWrite", "poke",
                      "readInstHalfWord", "readInstWord"} => ~ret.ok
     /\ call.op \in Toggles
        => /\ attribs = before.attribs
           /\ data = before.data
           /\ masks = before.masks

\* setWriteAccess(true) on the first address past the table left a
\* non-writable last page as it was.
C20_Witness ==
  /\ call.op = "setWriteAccess" /\ call.value = Flag(TRUE)
  /\ OutOfRange
  /\ ~attribs[NumPages - 1].write
  /\ attribs = before.attribs

(***************************************************************************)
(* Properties of the memory bounds.                                        *)
(***************************************************************************)
\* Some byte of the access lies at or beyond the memory size.
BeyondSize == call.addr + call.size > MemSize

\* C21: a read, write, poke or fetch any of whose bytes lies at or beyond
\* the memory size returns false, so one that returns true touched only
\* bytes of [0, size).
C21_BoundsSafety ==
  (/\ call.op \in {"read", "readByte", "write", "writeByte", "poke",
                    "pokeByte", "readInstHalfWord", "readInstWord"}
   /\ BeyondSize)
  => /\ ~ret.ok
     /\ data = before.data

\* A poke that starts in a mapped page of the memory and ends beyond its
\* size failed.
C21_Witness ==
  /\ call.op = "poke"
  /\ call.addr < MemSize /\ BeyondSize
  /\ isMapped(TheAttrib)
  /\ ~TheAttrib.reg
  /\ ~ret.ok

(***************************************************************************)
(* Properties of the region configurator.                                  *)
(***************************************************************************)
DefineOps == {"defineIccm", "defineDccm", "defineMemoryMappedRegisterRegion"}
\* The pages of the window of the define call.
CallWindow ==
  {p \in Pages : call.addr <= p * PageSize /\ p * PageSize < call.addr + call.size}
\* The word addresses of a page.
WordsOf(p) == {p * PageSize + 4 * i : i \in 0 .. (WordsPerPage - 1)}
\* The byte buffer after the first hart wrote the word at addr.
Written(addr) == write(0, addr, 4, WordValue)

\* C22: after a successful defineDccm every page of the window is readable,
\* writable, not executable, not a register page and flagged DCCM, a word
\* written to it is stored and can be read, and readInstWord fails there;
\* after a successful defineIccm every page of the window is readable,
\* executable, not writable, not a register page and flagged ICCM. A word
\* written to a page with the attributes of a DCCM window is read back.
C22_CarveOutAttributes ==
  /\ (call.op = "defineDccm" /\ ret.ok)
     => \A p \in CallWindow :
          /\ attribs[p] = PageAttribs(TRUE, TRUE, FALSE, FALSE, FALSE, TRUE)
          /\ \A addr \in WordsOf(p) :
               /\ Written(addr).ok
               /\ LoadBytes(Written(addr).data, addr, 4) = WordValue
               /\ read(addr, 4).ok
               /\ ~readInstWord(addr).ok
  /\ (call.op = "defineIccm" /\ ret.ok)
     => \A p \in CallWindow :
          attribs[p] = PageAttribs(TRUE, FALSE, TRUE, FALSE, TRUE, FALSE)
  /\ (/\ call.op = "write"
      /\ call.addr % 4 = 0
      /\ TheAttrib = PageAttribs(TRUE, TRUE, FALSE, FALSE, FALSE, TRUE))
     => /\ ret.ok
        /\ read(call.addr, 4) = Returned(call.value)

\* defineDccm succeeded on a window of at least one page.
C22_Witness ==
  /\ call.op = "defineDccm"
  /\ ret.ok
  /\ CallWindow # {}
  /\ \E p \in Pages : p \notin CallWindow

\* The define call was given a window that is page-aligned and in the memory.
ValidWindow ==
  /\ call.addr % PageSize = 0
  /\ call.size % PageSize = 0
  /\ call.addr + call.size <= MemSize
\* A page of the call's window was claimed by a window of another kind.
OverlapsOtherKind ==
  \E p \in CallWindow :
    \/ before.attribs[p].iccm /\ call.op # "defineIccm"
    \/ before.attribs[p].dccm /\ call.op # "defineDccm"
    \/ before.attribs[p].reg /\ call.op # "defineMemoryMappedRegisterRegion"

\* C23: a define call whose window shares a page with an earlier window of
\* a different kind returns false and leaves the attributes of every page
\* as they were.
C23_OverlapRejected ==
  (call.op \in DefineOps /\ OverlapsOtherKind)
  => /\ ~ret.ok
     /\ attribs = before.attribs
     /\ masks = before.masks

\* A register region was defined over a page of an earlier DCCM window, with
\* a window that is valid by itself.
C23_Witness ==
  /\ call.op = "defineMemoryMappedRegisterRegion"
  /\ ValidWindow
  /\ \E p \in CallWindow : before.attribs[p].dccm
  /\ ~ret.ok
  /\ attribs = before.attribs

\* C24: defineIccm, defineDccm and defineMemoryMappedRegisterRegion return
\* false and change neither attributes nor masks when the window's first
\* address region * regionSize + offset is not page-aligned, when its size is
\* not page-aligned, or when it does not fit in the memory.
C24_InvalidWindowRejected ==
  (call.op \in DefineOps /\ ~ValidWindow)
  => /\ ~ret.ok
     /\ attribs = before.attribs
     /\ masks = before.masks

\* defineIccm was given a page-aligned window that starts in the memory and
\* ends beyond it.
C24_Witness ==
  /\ call.op = "defineIccm"
  /\ call.addr % PageSize = 0
  /\ call.size % PageSize = 0
  /\ call.addr < MemSize
  /\ call.addr + call.size > MemSize
  /\ ~ret.ok
  /\ attribs = before.attribs

\* The mask that the table msk holds for the word at addr.
MaskOf(msk, addr) ==
  IF msk = <<>> THEN AllOnes
  ELSE IF msk[getPageIx(addr) + 1] = <<>> THEN AllOnes
  ELSE msk[getPageIx(addr) + 1][((addr % PageSize) \div 4) + 1]
\* The word addresses of the memory.
WordAddrs == UNION {WordsOf(p) : p \in Pages}
\* The address given to the mask definition lies in a register page.
InRegisterRegion ==
  call.addr < MemSize /\ before.attribs[getPageIx(call.addr)].reg

\* C25: defineMemoryMappedRegisterWriteMask returns false and leaves every
\* mask as it was when its address lies in no register region or is not
\* word-aligned; otherwise it returns true, the word at its address has the
\* given mask and every other word keeps its mask, which is all-ones for a
\* word that was never given one.
C25_WriteMaskDefinition ==
  call.op = "defineMemoryMappedRegisterWriteMask"
  => IF InRegisterRegion /\ call.addr % 4 = 0
     THEN /\ ret.ok
          /\ \A addr \in WordAddrs :
               MaskOf(masks, addr) = IF addr = call.addr THEN call.value
                                     ELSE MaskOf(before.masks, addr)
     ELSE /\ ~ret.ok
          /\ masks = before.masks

\* A second mask was defined in a register page: the word defined first
\* keeps the mask 0x1 and its neighbour, never defined, has all-ones.
C25_Witness ==
  /\ call.op = "defineMemoryMappedRegisterWriteMask"
  /\ ret.ok
  /\ call.value = Zeros(4)
  /\ \E a, b \in WordAddrs \ {call.addr} :
       /\ getPageIx(a) = getPageIx(call.addr)
       /\ MaskOf(masks, a) = MaskValues[1]
       /\ attribs[getPageIx(b)].reg
       /\ b # a
       /\ MaskOf(masks, b) = AllOnes

\* C26 as stated: a mask lookup returns all-ones when there is no mask
\* table, when the table has no slot or no mask vector for the page of the
\* address, and when the address is not in a register page; and a word given
\* to write or checkWrite at a writable address outside the register pages
\* is stored, respectively returned, unmasked.
C26_AsStated ==
  /\ (/\ call.op = "getMemoryMappedMask"
      /\ \/ masks = <<>>
         \/ getPageIx(call.addr) >= Len(masks)
         \/ masks[getPageIx(call.addr) + 1] = <<>>
         \/ ~TheAttrib.reg)
     => /\ thrown = NoException
        /\ ret = Returned(AllOnes)
  /\ (/\ call.op \in {"write", "checkWrite"}
      /\ call.size = 4
      /\ ret.ok
      /\ ~TheAttrib.reg)
     => /\ call.op = "write" => StoredWord = call.value
        /\ call.op = "checkWrite" => ret.value = call.value

\* C27: in every state reached by construction, define calls accepted or
\* rejected, finishCcmConfig and access toggles, no page is flagged both ICCM
\* and DCCM and no register page is flagged ICCM or DCCM.
C27_OneKindPerPage ==
  \A p \in Pages :
    /\ ~(attribs[p].iccm /\ attribs[p].dccm)
    /\ attribs[p].reg => (~attribs[p].iccm /\ ~attribs[p].dccm)

\* A DCCM page and a register page after the define calls, finishCcmConfig
\* and a toggle of the access to a page.
C27_Witness ==
  /\ \E p, q \in Pages : attribs[p].dccm /\ attribs[q].reg
  /\ cfg.defines = MaxDefines
  /\ cfg.stage = "done"
  /\ ntoggles > 0
  /\ call.op \in Toggles

\* C28: after finishCcmConfig, every page that no ICCM, DCCM or register
\* window claimed, in a region where some page was claimed, is external and
\* readable, writable and executable.
C28_UnclaimedPagesExternal ==
  call.op = "finishCcmConfig"
  => \A region \in Regions :
       (\E q \in PagesOf(region) : Claimed(attribs[q]))
       => \A p \in PagesOf(region) :
            ~Claimed(attribs[p])
            => /\ isExternal(attribs[p])
               /\ attribs[p].read /\ attribs[p].write /\ attribs[p].exec

\* finishCcmConfig was called on a region with a claimed page and an
\* unclaimed one.
C28_Witness ==
  /\ call.op = "finishCcmConfig"
  /\ \E region \in Regions :
       \E p, q \in PagesOf(region) :
         /\ before.attribs[q].dccm
         /\ ~Claimed(before.attribs[p])
         /\ attribs[p] = ExternalPage

(***************************************************************************)
(* Properties of applyMemoryConfig.                                        *)
(***************************************************************************)
\* applyMemoryConfig is over: it returned or an exception left it.
RunOver == cfg.stage = "done" \/ thrown # NoException

\* C29 as stated: in every run of applyMemoryConfig, finishCcmConfig is
\* called exactly once, after the ICCM, DCCM and PIC sections have all been
\* applied, failed or not, and before any fetch or data window is applied.
C29_AsStated ==
  /\ cfg.finished <= 1
  /\ cfg.finished = 1 => cfg.attempted = {"iccm", "dccm", "pic"}
  /\ call.op = "finishCcmConfig" => cfg.windows = 0
  /\ cfg.windows > 0 => cfg.finished = 1
  /\ RunOver => cfg.finished = 1

(***************************************************************************)
(* Properties of the failure reporting.                                    *)
(***************************************************************************)
HartOps ==
  {"write", "writeByte", "makeLr", "hasLr", "invalidateLr",
   "clearLastWriteInfo", "getLastWriteNewValue", "getLastWriteOldValue",
   "getLastWriteOldValue2"}

\* C30 as stated: no operation raises; a write, makeLr, hasLr, invalidateLr,
\* clearLastWriteInfo or getLastWrite* call with a hart id that is not
\* below the hart count conveys its failure through its return value, and
\* no exception leaves it.
C30_AsStated ==
  call.op \in HartOps => thrown = NoException

(***************************************************************************)
(* Pokes.                                                                  *)
(***************************************************************************)
PokeOps == {"poke", "pokeByte"}
\* The poke runs past the end of the page it starts in.
PokePastPage == call.addr + call.size > getPageStartAddr(call.addr) + PageSize
\* The page following the one the poke starts in.
NextAttrib == getAttrib(getPageStartAddr(call.addr) + PageSize)

C33_MakeLrFrame ==
  call.op = "makeLr"
  => /\ reservations[call.hart]
          = [addr |-> call.addr, size |-> call.size, valid |-> TRUE]
     /\ \A g \in Harts \ {call.hart} :
          reservations[g] = before.reservations[g]
     /\ hasLr(call.hart, call.addr)

\* Two harts hold valid reservations on the address just reserved.
C33_Witness ==
  /\ call.op = "makeLr"
  /\ \E g \in Harts \ {call.hart} :
       /\ before.reservations[g].valid
       /\ before.reservations[g].addr = call.addr
       /\ hasLr(g, call.addr)
       /\ hasLr(call.hart, call.addr)

\* The makeLr calls of hart h on address addr that no later makeLr of h
\* replaced or resized, no invalidateLr(h) ended and no overlapping
\* invalidateOtherHartLr of another hart ended.
Current(h, addr) ==
  {t \in persisting : t.hart = h /\ t.addr = addr /\ ~t.resized}

\* C34: in every reachable state hasLr(h, a) holds only if the last makeLr
\* or invalidateLr hart h executed was makeLr(h, a, s) and no other hart
\* has since executed invalidateOtherHartLr on an interval overlapping
\* [a, a+s); hasLr is false for every hart that never executed makeLr, in
\* particular for every hart before the first call.
C34_ReservationNeverStale ==
  /\ \A h \in Harts, addr \in StoreAddrs :
       hasLr(h, addr)
       => /\ Current(h, addr) # {}
          /\ \A t \in Current(h, addr) : t.size = reservations[h].size
          /\ h \notin invalidated
  /\ call.op = "none" => \A h \in Harts, addr \in StoreAddrs : ~hasLr(h, addr)

\* A store of another hart has ended a reservation, whose address and size
\* the record still holds.
C34_Witness ==
  /\ call.op = "invalidateOtherHartLr"
  /\ \E h \in Harts \ {call.hart} :
       /\ before.reservations[h].valid
       /\ ~reservations[h].valid
       /\ reservations[h].addr = before.reservations[h].addr
       /\ ~hasLr(h, reservations[h].addr)
       /\ Current(h, reservations[h].addr) = {}

(***************************************************************************)
(* The record of a store and the memory it changed.                        *)
(***************************************************************************)
\* C37: right after a successful write or writeByte by hart h, to a plain
\* page or to a register, h's last-write record holds the address and size
\* of the call, and its new value is what memory holds at that address and
\* size; for a register it is value & mask.
C37_RecordMatchesMemory ==
  Wrote
  => LET lwd == lastWriteData[call.hart]
     IN /\ lwd.addr = call.addr /\ lwd.size = call.size
        /\ lwd.value = ZeroExtend(LoadBytes(data, lwd.addr, lwd.size))
        /\ TheAttrib.reg
             => lwd.value = ZeroExtend(AndBytes(call.value, WriteMask))
        /\ ~TheAttrib.reg => lwd.value = ZeroExtend(call.value)

\* A register write whose mask cleared bits of the value given.
C37_Witness ==
  /\ Wrote /\ TheAttrib.reg
  /\ AndBytes(call.value, WriteMask) # call.value
  /\ AndBytes(call.value, WriteMask) # Zeros(4)
  /\ LoadBytes(data, call.addr, 4) = AndBytes(call.value, WriteMask)
  /\ lastWriteData[call.hart].value = ZeroExtend(LoadBytes(data, call.addr, 4))

(***************************************************************************)
(* What pokes, stores and protection toggles leave alone.                  *)
(***************************************************************************)
\* C32: after a poke or pokeByte, successful or not, every hart's
\* last-write record and every hart's reservation are as they were before.
C32_PokeNotRecorded ==
  call.op \in PokeOps
  => /\ lastWriteData = before.lastWriteData
     /\ reservations = before.reservations

\* A successful poke over a word that one hart has reserved and a hart has
\* written last.
C32_Witness ==
  /\ call.op = "poke" /\ ret.ok
  /\ data # before.data
  /\ \E h \in Harts : hasLr(h, call.addr)
  /\ \E g \in Harts : /\ lastWriteData[g].size = call.size
                       /\ lastWriteData[g].addr = call.addr
                       /\ lastWriteData[g].value # ZeroExtend(call.value)

StoreOps == {"write", "writeByte", "poke", "pokeByte"}

\* C35: write, writeByte, a register write and poke leave every hart's
\* reservation as it was, so that after hart g has written to an address
\* reserved by hart h, hasLr(h, a) still holds, until
\* invalidateOtherHartLr(g, ..) is called; invalidateOtherHartLr(g, ..)
\* leaves g's own reservation as it was.
C35_StoresKeepReservations ==
  /\ call.op \in StoreOps
     => /\ reservations = before.reservations
        /\ \A h \in Harts, addr \in FrameLrAddrs :
             hasLr(h, addr) <=> (/\ before.reservations[h].valid
                                 /\ before.reservations[h].addr = addr)
  /\ call.op = "invalidateOtherHartLr"
     => reservations[call.hart] = before.reservations[call.hart]

\* A hart has written a register that the other hart holds reserved, and
\* the reservation is still valid.
C35_Witness ==
  /\ call.op = "write" /\ ret.ok
  /\ TheAttrib.reg
  /\ data # before.data
  /\ \E h \in Harts \ {call.hart} : hasLr(h, call.addr)

ToggleOps == {"setReadAccess", "setWriteAccess", "setExecAccess"}
\* The page table after the flag named by the call is given the value of the
\* call, in the page of its address.
Flagged(att) ==
  LET ix == getPageIx(call.addr)
      flag == call.value = Flag(TRUE)
  IN IF ix >= NumPages THEN att
     ELSE IF call.op = "setReadAccess" THEN [att EXCEPT ![ix].read = flag]
     ELSE IF call.op = "setWriteAccess" THEN [att EXCEPT ![ix].write = flag]
     ELSE [att EXCEPT ![ix].exec = flag]

\* C38: setReadAccess, setWriteAccess and setExecAccess change only the
\* flag they name, in the one page holding the address: the other five
\* flags of that page, all other pages, memory contents, write masks,
\* reservations and last-write records are as before; and a write or
\* writeByte that starts in a page whose write flag is cleared, as after
\* setWriteAccess(a, false), fails.
C38_ToggleFrame ==
  /\ call.op \in ToggleOps
     => /\ attribs = Flagged(before.attribs)
        /\ data = before.data
        /\ masks = before.masks
        /\ reservations = before.reservations
        /\ lastWriteData = before.lastWriteData
  /\ (call.op = "setWriteAccess" /\ call.value = Flag(FALSE))
     => ~getAttrib(call.addr).write
  /\ (call.op \in WriteOps /\ ~TheAttrib.write) => ~ret.ok

\* A write fails in the first page, whose write flag was cleared after an
\* earlier write left its record.
C38_Witness ==
  /\ call.op = "write" /\ ~ret.ok
  /\ TheAttrib = [ExternalPage EXCEPT !.write = FALSE]
  /\ \E h \in Harts : /\ lastWriteData[h].size # 0
                       /\ getPageIx(lastWriteData[h].addr) = getPageIx(call.addr)

(***************************************************************************)
(* Concurrent stores.                                                      *)
(***************************************************************************)
\* Every hart has stored a word, all at one address, and has returned.
RacedOnOneWord ==
  /\ \A h \in Harts : pc[h] = "done"
  /\ \A i, j \in 1 .. Len(stored) : stored[i].addr = stored[j].addr

\* The memory after the recorded previous values of the first i stores are
\* written back, the last store first.
RECURSIVE RolledBack(_, _)
RolledBack(d, i) ==
  IF i = 0 THEN d
  ELSE RolledBack(StoreBytes(d, stored[i].addr,
                             Take(lastWriteData[stored[i].hart].prevValue, 4)),
                  i - 1)

\* C36 as stated: when the harts write to one address concurrently, in
\* every interleaving the previous value recorded for each hart is the
\* content its own store replaced, and writing the recorded previous values
\* back in reverse order of the stores restores the memory as it was before
\* the first store.
C36_AsStated ==
  RacedOnOneWord
  => /\ \A i \in 1 .. Len(stored) :
          lastWriteData[stored[i].hart].prevValue
            = ZeroExtend(stored[i].overwrote)
     /\ RolledBack(data, Len(stored)) = before.data

(***************************************************************************)
(* The register masks of the PIC.                                          *)
(***************************************************************************)
\* The masks of mpiccfg, meipl, meip, meie, meigwctrl and meigwclr.
GroupMasks ==
  <<(<<1, 0, 0, 0>>), (<<15, 0, 0, 0>>), (<<0, 0, 0, 0>>), (<<1, 0, 0, 0>>),
    (<<3, 0, 0, 0>>), (<<0, 0, 0, 0>>)>>
\* The word addresses of the register region of a PIC section.
PicWords(pic) ==
  {addr \in WordAddrs :
     /\ pic.region * RegionSize + pic.offset <= addr
     /\ addr < pic.region * RegionSize + pic.offset + pic.size}
\* The register groups of the section that hold the word at addr.
GroupsAt(pic, addr) ==
  {i \in 1 .. 6 :
     /\ pic.offsets[i] >= 0
     /\ \E regIx \in 0 .. (picCounts(pic)[i] - 1) :
          addr = pic.region * RegionSize + pic.offset + pic.offsets[i]
                   + picAdjust[i] + regIx * 4}
Last(groups) == CHOOSE i \in groups : \A j \in groups : j <= i

\* C39: after applyPicConfig returned true for a PIC section, every word of
\* its region that lies in none of the six register groups has write mask
\* 0, and a word of a group has the mask of the group: 1 for mpiccfg, 0xf
\* for meipl, 0 for meip, 1 for meie, 3 for meigwctrl, 0 for meigwclr (of
\* the group named last, where the section puts two groups on one word);
\* when the register region cannot be defined, applyPicConfig returns
\* false and every mask is as before.
C39_PicMasks ==
  (call.op = "applyPicConfig" /\ call.value.kind = "entry")
  => LET pic == call.value
         region == defineMemoryMappedRegisterRegion(before.attribs, pic.region,
                                                    pic.offset, pic.size)
     IN /\ ret.ok
             => \A addr \in PicWords(pic) :
                  MaskOf(masks, addr)
                    = IF GroupsAt(pic, addr) = {} THEN Zeros(4)
                      ELSE GroupMasks[Last(GroupsAt(pic, addr))]
        /\ ~region.ok
             => /\ ~ret.ok
                /\ thrown = NoException
                /\ masks = before.masks
                /\ attribs = before.attribs

\* applyPicConfig returned true for a section with one group: the word of
\* meipl has mask 0xf and the other word of the region has mask 0.
C39_Witness ==
  /\ call.op = "applyPicConfig" /\ call.value.kind = "entry"
  /\ ret.ok
  /\ \E addr \in PicWords(call.value) :
       /\ GroupsAt(call.value, addr) = {}
       /\ MaskOf(masks, addr) = Zeros(4)
       /\ MaskOf(before.masks, addr) = AllOnes
  /\ \E addr \in PicWords(call.value) :
       /\ GroupsAt(call.value, addr) = {2}
       /\ MaskOf(masks, addr) = <<15, 0, 0, 0>>

(***************************************************************************)
(* The CSR that starts the harts.                                          *)
(***************************************************************************)
MhartstartOps == {"writeMhartstart", "pokeMhartstart"}

====
